---- MODULE Spec2Model ----
(***************************************************************************)
(* secsnail: stop-and-wait (alternating bit) file transfer over UDP.       *)
(*                                                                         *)
(* One sender (SecSnailSocket::send_file_blocking) and one receiver        *)
(* (SecSnailSocket::recv_file_blocking) joined by two FIFO datagram        *)
(* queues.  Time is abstract: a running timer may expire at any moment.    *)
(*                                                                         *)
(* A byte string is a sequence of runs [src, off, len]: `len` consecutive  *)
(* bytes of the byte source `src` ("file": the file being sent, "name":    *)
(* its basename, "junk": bytes damaged in transit) starting at `off`.      *)
(* Adjacent runs are coalesced, so two byte strings are equal exactly when *)
(* their run sequences are equal (the bytes of a source are taken to be    *)
(* pairwise distinct, which is the case that tells repetition and loss     *)
(* apart).                                                                 *)
(***************************************************************************)
EXTENDS Integers, Sequences, FiniteSets, TLC

VARIABLES
    snd_fsm,        \* FsmStateWrapper of fsm_send: state, n, retransmit_counter, sndpkt
    snd_ctx,        \* SendProtocolIoContext: timer_start, recv_addr, buf_redr, data_counter
    max_retransmits,\* SndFsm.config.max_retransmits
    file_len,       \* size in bytes of the file being sent
    snd_res,        \* run_snd_fsm_loop: "running", "ok" (returned), "panic"
    rcv_fsm,        \* FsmStateWrapper of fsm_recv: state, sndpkt
    rcv_ctx,        \* RecvProtocolIoContext: snd_addr, buf_wrt, connection_timer_start, data_counter
    disk,           \* the destination file: exists, name, bytes (flushed)
    rcv_res,        \* run_rcv_fsm_loop: "running", "err", "panic"; "down": never called
    s2r,            \* datagrams in flight towards the receiver's socket
    r2s,            \* datagrams in flight towards the sender's socket
    ev,             \* the last handler run: actor, edge, datagram received, packet handed to udt_send
    snd_frames,     \* the packets the sender built with make_pkt, in order
    tx_cur,         \* udt_send calls made for the newest sender packet
    snd_heard,      \* the sender has taken a datagram from its socket
    faults,         \* datagrams lost, damaged or duplicated by udt_send, or left over in a socket
    clean,          \* no loss, corruption, duplication or timer expiry so far
    wire,           \* while clean: every datagram put on the wire, in order
    codec           \* pck.rs on its own: the arguments of Packet::new, the packet, the buffer
                    \* handed to Packet::decode and what decode returned

vars == <<snd_fsm, snd_ctx, max_retransmits, file_len, snd_res, rcv_fsm, rcv_ctx, disk,
          rcv_res, s2r, r2s, ev, snd_frames, tx_cur, snd_heard, faults, clean, wire, codec>>

(***************************************************************************)
(* Program constants                                                       *)
(***************************************************************************)
MAX_PAYLOAD_SIZE == 512
HEADER_LEN == 4
\* capacity of std::io::BufReader / BufWriter as created by ::new
DEFAULT_BUF_SIZE == 8192

(***************************************************************************)
(* Bounds of the model                                                     *)
(***************************************************************************)
\* max_retransmits ranges over 0..MaxRetransmitsBound
MaxRetransmitsBound == 1
\* datagrams one direction of the network holds; a send that does not fit is dropped
MaxInFlight == 2
\* random draws of udt_send per run that lose, damage or duplicate a datagram
MaxFaults == 2

\* timeouts of 0..MaxTimeout ticks, and up to MaxElapsed ticks gone since a timer's start
MaxTimeout == 4
MaxElapsed == 6

\* file sizes explored with a faulty channel, and on a fault-free channel
FileSizes == {0, 512}
CleanFileSizes == {0, 1, 508, 509, 512, 1016, 1024, 8192, 8193, 8636}

SndAddr == "S"
RcvAddr == "R"

Min(a, b) == IF a <= b THEN a ELSE b

(***************************************************************************)
(* Timer origins.  timer_start and connection_timer_start are of type      *)
(* Option<Instant>:                                                        *)
(* NoInstant is None, 1 and 2 are instants.  The model has no clock; all   *)
(* it keeps of an instant is that Instant::now() differs from the instant  *)
(* a timer held before, so that a timer started again is told from a timer *)
(* left alone.                                                             *)
(***************************************************************************)
NoInstant == 0
Instant_now(held) == IF held = 1 THEN 2 ELSE 1

\* SecSnailSocket::update_udp_sock_timeout on durations in whole ticks: whether the
\* timeout is reached, and the read timeout given to set_read_timeout (0: none given)
update_udp_sock_timeout(elapsed, timeout) ==
    IF elapsed >= timeout THEN [expired |-> TRUE, read_timeout |-> 0]
    ELSE [expired |-> FALSE, read_timeout |-> timeout - elapsed]

(***************************************************************************)
(* Byte strings                                                            *)
(***************************************************************************)
Run(src, off, len) == [src |-> src, off |-> off, len |-> len]

Bytes(src, off, len) == IF len = 0 THEN <<>> ELSE <<Run(src, off, len)>>

RECURSIVE BLen(_)
BLen(b) == IF b = <<>> THEN 0 ELSE Head(b).len + BLen(Tail(b))

\* a ++ b
BConcat(a, b) ==
    IF a = <<>> THEN b
    ELSE IF b = <<>> THEN a
    ELSE LET l == a[Len(a)]
             h == Head(b)
         IN IF l.src = h.src /\ l.off + l.len = h.off
            THEN SubSeq(a, 1, Len(a) - 1) \o <<Run(l.src, l.off, l.len + h.len)>> \o Tail(b)
            ELSE a \o b

\* the content of the file being sent, and its basename
FileBytes == Bytes("file", 0, file_len)
FileNameLen == 5
FileName == Bytes("name", 0, FileNameLen)

(***************************************************************************)
(* Packet codec (pck.rs), header level.  The checksum byte is kept as the  *)
(* fact crc_ok: "the stored checksum equals the CRC of the other bytes".   *)
(***************************************************************************)
Flags == {"SYN", "ACK", "FIN", "FINACK", "Data"}

\* a Flag::to_byte that gives FIN the bit of ACK (what C15 must exclude)
to_byte_fin_as_ack(flag, n) ==
    (CASE flag = "SYN" -> 16
       [] flag = "ACK" -> 64
       [] flag = "FIN" -> 64
       [] flag = "FINACK" -> 96
       [] OTHER -> 0)
    + (IF n THEN 128 ELSE 0)

\* Flag::to_byte
to_byte(flag, n) ==
    (CASE flag = "SYN" -> 16
       [] flag = "ACK" -> 64
       [] flag = "FIN" -> 32
       [] flag = "FINACK" -> 96
       [] OTHER -> 0)
    + (IF n THEN 128 ELSE 0)

\* Flag::byte_to_flag_and_n: [ok, flag, n]
byte_to_flag_and_n(b) ==
    LET fixed_zeros == b % 16
        n == b >= 128
        flag_bits == ((b \div 16) % 8) * 16
    IN IF fixed_zeros > 0 /\ fixed_zeros <= 15
       THEN [ok |-> FALSE, flag |-> "None", n |-> FALSE]
       ELSE CASE flag_bits = 16 -> [ok |-> TRUE, flag |-> "SYN", n |-> n]
              [] flag_bits = 64 -> [ok |-> TRUE, flag |-> "ACK", n |-> n]
              [] flag_bits = 32 -> [ok |-> TRUE, flag |-> "FIN", n |-> n]
              [] flag_bits = 96 -> [ok |-> TRUE, flag |-> "FINACK", n |-> n]
              [] flag_bits = 0 -> [ok |-> TRUE, flag |-> "Data", n |-> n]
              [] OTHER -> [ok |-> FALSE, flag |-> "None", n |-> FALSE]

\* a payload limit that forgets the header (what C8 must exclude)
max_pck_payload_size_whole == MAX_PAYLOAD_SIZE

\* Packet::max_pck_payload_size
max_pck_payload_size == MAX_PAYLOAD_SIZE - HEADER_LEN

\* util::u8_to_bool
u8_to_bool(n) == n # 0

\* a Packet value; flag "None" stands for Option::None, "-" for no packet at all
Pkt(n, flag, payload, crc_ok) == [n |-> n, flag |-> flag, payload |-> payload, crc_ok |-> crc_ok]
NonePkt == Pkt(FALSE, "None", <<>>, FALSE)
NoPkt == Pkt(FALSE, "-", <<>>, FALSE)

\* Packet::new: [ok, pkt]
PacketNew(n, f, p) ==
    IF BLen(p) > max_pck_payload_size
    THEN [ok |-> FALSE, pkt |-> NoPkt]
    ELSE [ok |-> TRUE, pkt |-> Pkt(n, f, p, TRUE)]

\* Packet::n
pkt_n(p) == IF p.n THEN 1 ELSE 0

notcorrupt(p) == p.crc_ok
corrupt(p) == ~notcorrupt(p)
is_SYN(p) == p.flag = "SYN"
is_not_SYN(p) == ~is_SYN(p)
is_ACK(p) == p.flag = "ACK"
is_FIN(p) == p.flag = "FIN"
is_Data(p) == p.flag = "Data"
is_FINACK(p) == p.flag = "FINACK"

\* Packet::encode: the datagram [b0, crc_ok, payload]
encode(p) == [b0 |-> to_byte(p.flag, p.n), crc_ok |-> p.crc_ok, payload |-> p.payload]

\* Packet::decode as rdt_recv applies it: Some(packet) or None
decode(d) ==
    LET r == byte_to_flag_and_n(d.b0)
    IN IF r.ok THEN Pkt(r.n, r.flag, d.payload, d.crc_ok) ELSE NonePkt

(***************************************************************************)
(* Packet codec (pck.rs), byte level.  A buffer is a sequence of bytes     *)
(* 0..255; the checksum is computed as the crc crate computes it.          *)
(***************************************************************************)
\* a ^ b on the low k bits
RECURSIVE XorBits(_, _, _)
XorBits(a, b, k) ==
    IF k = 0 THEN 0
    ELSE ((a + b) % 2) + 2 * XorBits(a \div 2, b \div 2, k - 1)

BitXor(a, b) == XorBits(a, b, 8)

\* CRC_8_I_423_1: width 8, poly 0x07, init 0x00, no reflection, xorout 0x55
CRC_POLY == 7
CRC_INIT == 0
CRC_XOROUT == 85

\* one bit of the division: shift left, subtract the polynomial when a 1 falls out
crc_shift(c) == IF c >= 128 THEN BitXor((2 * c) % 256, CRC_POLY) ELSE 2 * c

\* the crc crate's lookup table: eight shifts of each byte value
CrcTable == [b \in 0..255 |->
                crc_shift(crc_shift(crc_shift(crc_shift(
                crc_shift(crc_shift(crc_shift(crc_shift(b))))))))]

\* Digest::update over the bytes bs[lo..hi], one after another (the range is halved
\* to keep the evaluation shallow)
RECURSIVE crc_range(_, _, _, _)
crc_range(c, bs, lo, hi) ==
    IF lo > hi THEN c
    ELSE IF lo = hi THEN CrcTable[BitXor(c, bs[lo])]
    ELSE LET mid == (lo + hi) \div 2
             left == crc_range(c, bs, lo, mid)
         IN IF left \in 0..255 THEN crc_range(left, bs, mid + 1, hi) ELSE left

\* Digest::update
crc_update(c, bs) == crc_range(c, bs, 1, Len(bs))

\* u16::to_be_bytes
to_be_bytes(p_l) == <<p_l \div 256, p_l % 256>>
\* u16::from_be_bytes
from_be_bytes(hi, lo) == hi * 256 + lo

\* Packet::calc_checksum_crc_8_i_423_1
calc_checksum_crc_8_i_423_1(f_and_n, p_l, p) ==
    BitXor(crc_update(crc_update(crc_update(CRC_INIT, <<f_and_n>>), to_be_bytes(p_l)), p),
           CRC_XOROUT)

\* a Packet with its fields, or the io::Error a constructor returned
Packet(n, flag, checksum, payload_len, buf) ==
    [ok |-> TRUE, err |-> "", n |-> n, flag |-> flag, checksum |-> checksum,
     payload_len |-> payload_len, buf |-> buf]
PacketErr(kind) ==
    [ok |-> FALSE, err |-> kind, n |-> FALSE, flag |-> "None", checksum |-> 0,
     payload_len |-> 0, buf |-> <<>>]

\* a Packet::new that accepts a payload as long as the whole datagram (what C18 must exclude)
Packet_new_whole(n, f, p) ==
    LET b0 == to_byte(f, n)
        p_l == Len(p)
        crc == calc_checksum_crc_8_i_423_1(b0, p_l, p)
    IN IF Len(p) > MAX_PAYLOAD_SIZE THEN PacketErr("InvalidInput")
       ELSE Packet(n, f, crc, p_l, <<b0, crc>> \o to_be_bytes(p_l) \o p)

\* Packet::new
Packet_new(n, f, p) ==
    LET b0 == to_byte(f, n)
        p_l == Len(p)
        crc == calc_checksum_crc_8_i_423_1(b0, p_l, p)
    IN IF Len(p) > max_pck_payload_size THEN PacketErr("InvalidInput")
       ELSE Packet(n, f, crc, p_l, <<b0, crc>> \o to_be_bytes(p_l) \o p)

\* Packet::payload
Packet_payload(pk) == SubSeq(pk.buf, HEADER_LEN + 1, HEADER_LEN + pk.payload_len)

\* Packet::calc_checksum
calc_checksum(pk) ==
    calc_checksum_crc_8_i_423_1(to_byte(pk.flag, pk.n), pk.payload_len, Packet_payload(pk))

\* Packet::notcorrupt, Packet::corrupt
Packet_notcorrupt(pk) == pk.checksum = calc_checksum(pk)
Packet_corrupt(pk) == ~Packet_notcorrupt(pk)

\* Packet::encode
Packet_encode(pk) == pk.buf

\* a Packet::decode that takes any flag bits as DATA (what C17 must exclude)
Packet_decode_any_flag(buf) ==
    IF Len(buf) < HEADER_LEN THEN PacketErr("InvalidInput")
    ELSE LET payload_len == from_be_bytes(buf[3], buf[4])
         IN IF buf[1] % 16 # 0 THEN PacketErr("InvalidInput")
            ELSE IF Len(buf) < HEADER_LEN + payload_len THEN PacketErr("UnexpectedEof")
            ELSE Packet(buf[1] >= 128, "Data", buf[2], payload_len, buf)

\* Packet::decode (shrink_to changes the capacity of buf, not its length)
Packet_decode(buf) ==
    IF Len(buf) < HEADER_LEN THEN PacketErr("InvalidInput")
    ELSE LET r == byte_to_flag_and_n(buf[1])
             checksum == buf[2]
             payload_len == from_be_bytes(buf[3], buf[4])
         IN IF ~r.ok THEN PacketErr("InvalidInput")
            ELSE IF Len(buf) < HEADER_LEN + payload_len THEN PacketErr("UnexpectedEof")
            ELSE Packet(r.n, r.flag, checksum, payload_len, buf)

\* the packets Packet::new gives for a flag, a sequence bit and a payload
SYN_(n, p) == Pkt(n, "SYN", p, TRUE)
ACK_(n) == Pkt(n, "ACK", <<>>, TRUE)
FIN_(n) == Pkt(n, "FIN", <<>>, TRUE)
FINACK_(n) == Pkt(n, "FINACK", <<>>, TRUE)
DATA_(n, off, len) == Pkt(n, "Data", Bytes("file", off, len), TRUE)

(***************************************************************************)
(* The unreliable channel (SecSnailSocket::udt_send / rdt_recv)            *)
(***************************************************************************)
\* what the random draws of one udt_send call decide
\* (of byte 0, bit 0 stands for the reserved nibble, which decode rejects, and bit 7
\* is n; a flipped flag bit gives a packet that fails its checksum just as these do)
FlipBits == {0, 7}
Faults ==
    {f \in [loss : BOOLEAN, err : {"none", "byte0", "body"}, bit : FlipBits, dup : BOOLEAN] :
        /\ (f.loss => f.err = "none" /\ ~f.dup)
        /\ (f.err # "byte0" => f.bit = 0)}
NoFault == [loss |-> FALSE, err |-> "none", bit |-> 0, dup |-> FALSE]

\* the draws of f that came out as a fault
FaultCost(f) ==
    (IF f.loss THEN 1 ELSE 0) + (IF f.err # "none" THEN 1 ELSE 0) + (IF f.dup THEN 1 ELSE 0)

Pow2(k) == 2 ^ k
XorBit(b, k) == IF (b \div Pow2(k)) % 2 = 1 THEN b - Pow2(k) ELSE b + Pow2(k)

\* pkt[i] ^= mask: one bit of byte 0, or one bit of a later byte (checksum, length, payload)
FlipBit(d, f) ==
    CASE f.err = "byte0" -> [d EXCEPT !.b0 = XorBit(@, f.bit), !.crc_ok = FALSE]
      [] f.err = "body" -> [d EXCEPT !.crc_ok = FALSE,
                                     !.payload = Bytes("junk", 0, BLen(@))]
      [] OTHER -> d

\* SecSnailSocket::udt_send: the datagrams handed to the socket
udt_send(sndpkt, f) ==
    IF f.loss THEN <<>>
    ELSE LET pkt == FlipBit(encode(sndpkt), f)
         IN IF f.dup THEN <<pkt, pkt>> ELSE <<pkt>>

Stamp(src, dgs) == [i \in 1..Len(dgs) |-> [src |-> src, dg |-> dgs[i]]]

NoAddr == "none"

\* a receive loop that hands every datagram to the FSM (what C13 must exclude)
skip_never(recv_addr_opt, src) == FALSE

\* wait_for_incoming_or_timeout: `Some(rcv_addr) if rcv_addr != src => continue`
skip(recv_addr_opt, src) == recv_addr_opt # NoAddr /\ recv_addr_opt # src

\* the socket queues the datagrams of one send, or drops them when its queue is full
Put(chan, src, dgs) ==
    IF Len(chan) + Len(dgs) <= MaxInFlight THEN chan \o Stamp(src, dgs) ELSE chan

\* what the random draws of one udt_send call decide, for a buffer of l bytes: the
\* datagram is lost; a bit is flipped, in byte i, bit `bit`; the datagram is sent twice
Draw(loss, err, i, bit, dup) == [loss |-> loss, err |-> err, i |-> i, bit |-> bit, dup |-> dup]
NoDraw == Draw(FALSE, FALSE, 1, 0, FALSE)
Draws(l) ==
    {Draw(TRUE, FALSE, 1, 0, FALSE)}
    \cup {Draw(FALSE, FALSE, 1, 0, dup) : dup \in BOOLEAN}
    \cup {Draw(FALSE, TRUE, i, bit, dup) : i \in 1..l, bit \in 0..7, dup \in BOOLEAN}

\* a udt_send whose second copy is taken from the packet again (what C21 must exclude)
SecSnailSocket_udt_send_fresh_copy(sndpkt, d) ==
    IF d.loss THEN [sent |-> <<>>, ret |-> 0]
    ELSE LET enc == Packet_encode(sndpkt)
             pkt == IF d.err THEN [enc EXCEPT ![d.i] = XorBit(@, d.bit)] ELSE enc
         IN [sent |-> IF d.dup THEN <<enc, pkt>> ELSE <<pkt>>, ret |-> Len(pkt)]

\* SecSnailSocket::udt_send on the bytes: the buffers handed to send_to, in order, and
\* the value returned in Ok
SecSnailSocket_udt_send(sndpkt, d) ==
    IF d.loss THEN [sent |-> <<>>, ret |-> 0]
    ELSE LET enc == Packet_encode(sndpkt)
             pkt == IF d.err THEN [enc EXCEPT ![d.i] = XorBit(@, d.bit)] ELSE enc
         IN [sent |-> IF d.dup THEN <<pkt, pkt>> ELSE <<pkt>>, ret |-> Len(pkt)]

(***************************************************************************)
(* Sender: SendProtocolIoContext (sock.rs)                                 *)
(***************************************************************************)
SndState(state, n, rc, sndpkt) ==
    [state |-> state, n |-> n, retransmit_counter |-> rc, sndpkt |-> sndpkt]
SndEnd == SndState("End", 0, 0, NoPkt)

\* BufReader::fill_buf over the file: refill the empty buffer from the file
fill_buf(r) ==
    IF r.rem = 0 THEN [r EXCEPT !.rem = Min(DEFAULT_BUF_SIZE, file_len - r.pos)] ELSE r

\* SendProtocolIoContext::data_available: [ctx, avail]
snd_data_available(ctx) ==
    LET r == fill_buf(ctx.buf_redr)
    IN [ctx |-> [ctx EXCEPT !.buf_redr = r], avail |-> r.rem > 0]

\* BufReader::read into a buffer of max_pck_payload_size bytes: [r, payload]
buf_redr_read(r0) ==
    LET r == fill_buf(r0)
        k == Min(max_pck_payload_size, r.rem)
    IN [r |-> [pos |-> r.pos + k, rem |-> r.rem - k], payload |-> Bytes("file", r.pos, k)]

\* SendProtocolIoContext::make_pkt: [ctx, ok, pkt]
snd_make_pkt(ctx, seq_n, f) ==
    LET rd == buf_redr_read(ctx.buf_redr)
        payload == CASE f = "Data" -> rd.payload
                     [] f = "SYN" -> FileName
                     [] OTHER -> <<>>
        ctx1 == IF f = "Data" THEN [ctx EXCEPT !.buf_redr = rd.r] ELSE ctx
        new == PacketNew(u8_to_bool(seq_n), f, payload)
    IN [ctx |-> ctx1, ok |-> new.ok, pkt |-> new.pkt]

\* a stop_timer that leaves the origin in place (what C29 must exclude)
snd_stop_timer_keep(ctx) == ctx

\* start_timer / stop_timer
snd_start_timer(ctx) == [ctx EXCEPT !.timer_start = Instant_now(@)]
snd_stop_timer(ctx) == [ctx EXCEPT !.timer_start = NoInstant]
increase_data_counter(ctx, k) == [ctx EXCEPT !.data_counter = @ + k]

(***************************************************************************)
(* Sender FSM (fsm_send).  A transition gives the next state and context,  *)
(* the packet handed to udt_send (NoPkt: none), the packet built by        *)
(* make_pkt (NoPkt: none), the edge taken and how the handler ended.       *)
(***************************************************************************)
Step(fsm, ctx, out, built, edge, res) ==
    [fsm |-> fsm, ctx |-> ctx, out |-> out, built |-> built, edge |-> edge, res |-> res]

\* a sender whose sequence bit never changes (what C9 must exclude)
next_n_same(n) == n

next_n(n) == IF n = 0 THEN 1 ELSE 0

\* a retransmit counter of seven bits (what C23 must exclude)
inc_retransmit_narrow(fsm) == [fsm EXCEPT !.retransmit_counter = (@ + 1) % 128]

\* SndFsm::to_wait, to_send, inc_retransmit
to_wait(n, sndpkt) == SndState("Wait", n, 0, sndpkt)
to_send(n) == SndState("Send", n, 0, NoPkt)
inc_retransmit(fsm) == [fsm EXCEPT !.retransmit_counter = (@ + 1) % 256]

\* make_pkt, [increase_data_counter,] udt_send, start_timer, to_wait
snd_send_new(fsm, ctx, flag, edge) ==
    LET m == snd_make_pkt(ctx, fsm.n, flag)
        c1 == IF flag = "Data" THEN increase_data_counter(m.ctx, BLen(m.pkt.payload)) ELSE m.ctx
    IN IF ~m.ok THEN Step(fsm, m.ctx, NoPkt, NoPkt, edge, "err")
       ELSE Step(to_wait(fsm.n, m.pkt), snd_start_timer(c1), m.pkt, m.pkt, edge, "running")

\* StateRouter for SndFsm<SndStateStart>::goto on InitSYN
snd_start_goto(fsm, ctx) ==
    IF fsm.n # 0 THEN Step(fsm, ctx, NoPkt, NoPkt, "trap", "panic")
    ELSE snd_send_new(fsm, ctx, "SYN", "1")

\* a sender that frames an empty read as DATA (what C7 must exclude)
snd_send_goto_data_first(fsm, ctx) ==
    LET da == snd_data_available(ctx)
    IN IF da.avail \/ ctx.data_counter = 0 THEN snd_send_new(fsm, da.ctx, "Data", "4")
       ELSE snd_send_new(fsm, da.ctx, "FIN", "5")

\* StateRouter for SndFsm<SndStateSend>::goto on DataAvailable(ctx.data_available())
snd_send_goto(fsm, ctx) ==
    LET da == snd_data_available(ctx)
    IN IF da.avail THEN snd_send_new(fsm, da.ctx, "Data", "4")
       ELSE snd_send_new(fsm, da.ctx, "FIN", "5")

\* a sender that re-arms its timer on Timeout and does nothing else (what C4 must exclude)
snd_wait_timeout_rearm(fsm, ctx) ==
    Step(fsm, snd_start_timer(ctx), NoPkt, NoPkt, "2a", "running")

\* a sender that retransmits once more than its budget (what C5 must exclude)
snd_wait_timeout_one_more(fsm, ctx) ==
    IF fsm.retransmit_counter <= max_retransmits
    THEN Step(inc_retransmit(fsm), snd_start_timer(ctx), fsm.sndpkt, NoPkt, "2a", "running")
    ELSE Step(SndEnd, ctx, NoPkt, NoPkt, "2b", "ok")

\* a sender that reports an exhausted budget as an error (what C11 must exclude)
snd_wait_timeout_err(fsm, ctx) ==
    IF fsm.retransmit_counter < max_retransmits
    THEN Step(inc_retransmit(fsm), snd_start_timer(ctx), fsm.sndpkt, NoPkt, "2a", "running")
    ELSE Step(fsm, ctx, NoPkt, NoPkt, "2b", "err")

\* a sender that counts a retransmitted payload again (what C12 must exclude)
snd_wait_timeout_recount(fsm, ctx) ==
    IF fsm.retransmit_counter < max_retransmits
    THEN Step(inc_retransmit(fsm),
              increase_data_counter(snd_start_timer(ctx), BLen(fsm.sndpkt.payload)),
              fsm.sndpkt, NoPkt, "2a", "running")
    ELSE Step(SndEnd, ctx, NoPkt, NoPkt, "2b", "ok")

\* a sender that builds the frame anew for a retransmission (what C24 must exclude)
snd_wait_timeout_rebuild(fsm, ctx) ==
    LET m == snd_make_pkt(ctx, fsm.n, fsm.sndpkt.flag)
    IN IF fsm.retransmit_counter < max_retransmits
       THEN Step(inc_retransmit([fsm EXCEPT !.sndpkt = m.pkt]), snd_start_timer(m.ctx),
                 m.pkt, NoPkt, "2a", "running")
       ELSE Step(SndEnd, ctx, NoPkt, NoPkt, "2b", "ok")

\* StateRouter for SndFsm<SndStateWait>::goto on Timeout
snd_wait_timeout(fsm, ctx) ==
    IF fsm.retransmit_counter < max_retransmits
    THEN Step(inc_retransmit(fsm), snd_start_timer(ctx), fsm.sndpkt, NoPkt, "2a", "running")
    ELSE Step(SndEnd, ctx, NoPkt, NoPkt, "2b", "ok")

\* a sender that takes an ACK without looking at its checksum (what C32 must exclude)
snd_edge3_unchecked(rcvpkt, n) == is_ACK(rcvpkt) /\ n = pkt_n(rcvpkt)

\* a sender that takes an ACK of either sequence bit (what C1 must exclude)
snd_edge3_any_n(rcvpkt, n) == notcorrupt(rcvpkt) /\ is_ACK(rcvpkt)

\* an edge 8 for corrupt packets only (what C30 must exclude)
snd_edge8_corrupt_only(rcvpkt, n) == corrupt(rcvpkt)

\* the guards of the RecvPck arms of SndFsm<SndStateWait>::goto
snd_edge3(rcvpkt, n) == notcorrupt(rcvpkt) /\ is_ACK(rcvpkt) /\ n = pkt_n(rcvpkt)
snd_edge7_pkt(rcvpkt, n) == notcorrupt(rcvpkt) /\ is_FINACK(rcvpkt) /\ n = pkt_n(rcvpkt)
snd_edge8(rcvpkt, n) == corrupt(rcvpkt) \/ (is_ACK(rcvpkt) /\ n # pkt_n(rcvpkt))

\* a sender that starts its timer again on a datagram it does not take (what C22 must
\* exclude)
snd_wait_recv_rearm(fsm, ctx, rcvpkt) ==
    LET n == fsm.n
        da == snd_data_available(ctx)
    IN IF rcvpkt # NonePkt /\ snd_edge3(rcvpkt, n)
       THEN Step(to_send(next_n(n)), snd_stop_timer(ctx), NoPkt, NoPkt, "3", "running")
       ELSE IF rcvpkt # NonePkt /\ snd_edge7_pkt(rcvpkt, n) /\ ~da.avail
       THEN Step(SndEnd, da.ctx, NoPkt, NoPkt, "7", "ok")
       ELSE LET c == IF rcvpkt # NonePkt /\ snd_edge7_pkt(rcvpkt, n) THEN da.ctx ELSE ctx
            IN IF rcvpkt = NonePkt THEN Step(fsm, c, NoPkt, NoPkt, "none", "running")
               ELSE IF snd_edge8(rcvpkt, n)
               THEN Step(fsm, snd_start_timer(c), NoPkt, NoPkt, "8", "running")
               ELSE Step(fsm, c, NoPkt, NoPkt, "trap", "panic")

\* StateRouter for SndFsm<SndStateWait>::goto on RecvPck(rcvpkt)
snd_wait_recv(fsm, ctx, rcvpkt) ==
    LET n == fsm.n
        da == snd_data_available(ctx)
    IN IF rcvpkt # NonePkt /\ snd_edge3(rcvpkt, n)
       THEN Step(to_send(next_n(n)), snd_stop_timer(ctx), NoPkt, NoPkt, "3", "running")
       ELSE IF rcvpkt # NonePkt /\ snd_edge7_pkt(rcvpkt, n) /\ ~da.avail
       THEN Step(SndEnd, da.ctx, NoPkt, NoPkt, "7", "ok")
       ELSE LET c == IF rcvpkt # NonePkt /\ snd_edge7_pkt(rcvpkt, n) THEN da.ctx ELSE ctx
            IN IF rcvpkt = NonePkt THEN Step(fsm, c, NoPkt, NoPkt, "none", "running")
               ELSE IF snd_edge8(rcvpkt, n) THEN Step(fsm, c, NoPkt, NoPkt, "8", "running")
               ELSE Step(fsm, c, NoPkt, NoPkt, "trap", "panic")

(***************************************************************************)
(* Receiver: RecvProtocolIoContext (sock.rs)                               *)
(***************************************************************************)
RcvState(state, sndpkt) == [state |-> state, sndpkt |-> sndpkt]
WaitForConnection == RcvState("WaitForConnection", NoPkt)

NoWriter == [open |-> FALSE, pending |-> <<>>]
NoFile == [exists |-> FALSE, name |-> <<>>, bytes |-> <<>>]

\* a str::from_utf8 that takes any bytes (what C20 must exclude)
utf8_ok_any(payload) == TRUE

\* str::from_utf8 on the payload: the bytes of a basename ("name") and of a name with
\* path separators in it ("path") are text, other bytes are not
utf8_ok(payload) == \A i \in 1..Len(payload) : payload[i].src \in {"name", "path"}

\* RecvProtocolIoContext::extract_file_name: [ok, name]
extract_file_name(rcvpkt) == [ok |-> utf8_ok(rcvpkt.payload), name |-> rcvpkt.payload]

\* RecvProtocolIoContext::open_file: File::create truncates, then the BufWriter is replaced
\* (a writer that was still open is dropped, which writes out what it held): [ctx, disk]
open_file(ctx, filename) ==
    [ctx |-> [ctx EXCEPT !.buf_wrt = [open |-> TRUE, pending |-> <<>>]],
     disk |-> [exists |-> TRUE, name |-> filename, bytes |-> ctx.buf_wrt.pending]]

\* RecvProtocolIoContext::append (BufWriter::write): [ok, ctx, disk]
append(ctx, dsk, data) ==
    IF ~ctx.buf_wrt.open THEN [ok |-> FALSE, ctx |-> ctx, disk |-> dsk]
    ELSE IF BLen(ctx.buf_wrt.pending) + BLen(data) > DEFAULT_BUF_SIZE
    THEN [ok |-> TRUE,
          ctx |-> [ctx EXCEPT !.buf_wrt.pending = data],
          disk |-> [dsk EXCEPT !.bytes = BConcat(@, ctx.buf_wrt.pending)]]
    ELSE [ok |-> TRUE,
          ctx |-> [ctx EXCEPT !.buf_wrt.pending = BConcat(@, data)],
          disk |-> dsk]

\* a close_file that keeps the peer latched (what C14 must exclude)
close_file_keep_peer(ctx, dsk) ==
    IF ~ctx.buf_wrt.open THEN [ok |-> FALSE, ctx |-> ctx, disk |-> dsk]
    ELSE [ok |-> TRUE,
          ctx |-> [ctx EXCEPT !.buf_wrt = NoWriter],
          disk |-> [dsk EXCEPT !.bytes = BConcat(@, ctx.buf_wrt.pending)]]

\* RecvProtocolIoContext::close_file: flush, drop the writer, drop the peer: [ok, ctx, disk]
close_file(ctx, dsk) ==
    IF ~ctx.buf_wrt.open THEN [ok |-> FALSE, ctx |-> ctx, disk |-> dsk]
    ELSE [ok |-> TRUE,
          ctx |-> [ctx EXCEPT !.buf_wrt = NoWriter, !.snd_addr = NoAddr],
          disk |-> [dsk EXCEPT !.bytes = BConcat(@, ctx.buf_wrt.pending)]]

\* a make_pkt that gives every reply the sequence bit 0 (what C28 must exclude)
rcv_make_pkt_n0(seq_n, f) == PacketNew(FALSE, f, <<>>).pkt

\* RecvProtocolIoContext::make_pkt
rcv_make_pkt(seq_n, f) == PacketNew(u8_to_bool(seq_n), f, <<>>).pkt

start_connection_timer(ctx) == [ctx EXCEPT !.connection_timer_start = Instant_now(@)]
stop_connection_timer(ctx) == [ctx EXCEPT !.connection_timer_start = NoInstant]
restart_connection_timer(ctx) == start_connection_timer(ctx)

(***************************************************************************)
(* Receiver FSM (fsm_recv)                                                 *)
(***************************************************************************)
RStep(fsm, ctx, dsk, out, edge, res) ==
    [fsm |-> fsm, ctx |-> ctx, disk |-> dsk, out |-> out, edge |-> edge, res |-> res]

to_wait_for_pkt(sndpkt) == RcvState("WaitForPkt", sndpkt)

\* the guards of RcvFsm<RcvStateWaitForConnection>::goto
rcv_edge1(rcvpkt) == corrupt(rcvpkt) \/ 0 # pkt_n(rcvpkt) \/ is_not_SYN(rcvpkt)
rcv_edge2(rcvpkt) == notcorrupt(rcvpkt) /\ is_SYN(rcvpkt) /\ 0 = pkt_n(rcvpkt)
rcv_edge13(rcvpkt) == notcorrupt(rcvpkt) /\ is_FIN(rcvpkt)

\* edge 2: latch the peer, reset the counter, create the file, ACK
rcv_accept_syn(fsm, ctx, dsk, rcvpkt, snd_addr) ==
    LET c1 == [ctx EXCEPT !.snd_addr = snd_addr, !.data_counter = 0]
        fname == extract_file_name(rcvpkt)
        o == open_file(c1, fname.name)
        sndpkt == rcv_make_pkt(pkt_n(rcvpkt), "ACK")
    IN IF ~fname.ok THEN RStep(fsm, c1, dsk, NoPkt, "2", "err")
       ELSE RStep(to_wait_for_pkt(sndpkt), start_connection_timer(o.ctx), o.disk,
                  sndpkt, "2", "running")

\* edge 13: append the FIN's payload, FINACK
rcv_ack_stray_fin(fsm, ctx, dsk, rcvpkt) ==
    LET a == append(ctx, dsk, rcvpkt.payload)
        sndpkt == rcv_make_pkt(pkt_n(rcvpkt), "FINACK")
    IN IF ~a.ok \/ ctx.snd_addr = NoAddr THEN RStep(fsm, ctx, dsk, NoPkt, "13", "panic")
       ELSE RStep(fsm, a.ctx, a.disk, sndpkt, "13", "running")

\* a receiver that takes a SYN without looking at its checksum (what C26 must exclude)
rcv_wfc_goto_unchecked(fsm, ctx, dsk, rcvpkt, snd_addr) ==
    IF rcvpkt = NonePkt THEN RStep(fsm, ctx, dsk, NoPkt, "none", "running")
    ELSE IF is_SYN(rcvpkt) /\ 0 = pkt_n(rcvpkt)
    THEN rcv_accept_syn(fsm, ctx, dsk, rcvpkt, snd_addr)
    ELSE RStep(fsm, ctx, dsk, NoPkt, "1", "running")

\* StateRouter for RcvFsm<RcvStateWaitForConnection>::goto on RecvPck(rcvpkt, snd_addr)
rcv_wfc_goto(fsm, ctx, dsk, rcvpkt, snd_addr) ==
    IF rcvpkt = NonePkt THEN RStep(fsm, ctx, dsk, NoPkt, "none", "running")
    ELSE IF rcv_edge1(rcvpkt) THEN RStep(fsm, ctx, dsk, NoPkt, "1", "running")
    ELSE IF rcv_edge2(rcvpkt) THEN rcv_accept_syn(fsm, ctx, dsk, rcvpkt, snd_addr)
    ELSE IF rcv_edge13(rcvpkt) THEN rcv_ack_stray_fin(fsm, ctx, dsk, rcvpkt)
    ELSE RStep(fsm, ctx, dsk, NoPkt, "trap", "panic")

\* the guards of RcvFsm<RcvStateWaitForPkt>::goto
rcv_edge8(rcvpkt) == corrupt(rcvpkt) \/ is_SYN(rcvpkt)
\* a receiver without the duplicate arm (what C2 must exclude)
rcv_edge9_never(rcvpkt, sndpkt) == FALSE

rcv_edge9(rcvpkt, sndpkt) ==
    notcorrupt(rcvpkt) /\ pkt_n(rcvpkt) = pkt_n(sndpkt) /\ is_not_SYN(rcvpkt)
rcv_edge10(rcvpkt, sndpkt) ==
    notcorrupt(rcvpkt) /\ pkt_n(rcvpkt) # pkt_n(sndpkt) /\ is_Data(rcvpkt)
rcv_edge12(rcvpkt, sndpkt) ==
    notcorrupt(rcvpkt) /\ pkt_n(rcvpkt) # pkt_n(sndpkt) /\ is_FIN(rcvpkt)

\* an edge 10 that acknowledges a DATA frame without appending it (what C31 must exclude)
rcv_accept_data_drop(fsm, ctx, dsk, rcvpkt) ==
    LET c1 == [ctx EXCEPT !.data_counter = @ + BLen(rcvpkt.payload)]
        sndpkt == rcv_make_pkt(pkt_n(rcvpkt), "ACK")
    IN IF ~ctx.buf_wrt.open \/ ctx.snd_addr = NoAddr
       THEN RStep(fsm, ctx, dsk, NoPkt, "10", "panic")
       ELSE RStep(to_wait_for_pkt(sndpkt), restart_connection_timer(c1), dsk,
                  sndpkt, "10", "running")

\* edge 10: append the payload, count it, ACK with the frame's n
rcv_accept_data(fsm, ctx, dsk, rcvpkt) ==
    LET a == append(ctx, dsk, rcvpkt.payload)
        c1 == [a.ctx EXCEPT !.data_counter = @ + BLen(rcvpkt.payload)]
        sndpkt == rcv_make_pkt(pkt_n(rcvpkt), "ACK")
    IN IF ~a.ok \/ ctx.snd_addr = NoAddr THEN RStep(fsm, ctx, dsk, NoPkt, "10", "panic")
       ELSE RStep(to_wait_for_pkt(sndpkt), restart_connection_timer(c1), a.disk,
                  sndpkt, "10", "running")

\* edge 12: FINACK with the FIN's n, stop the timer, close the file
rcv_accept_fin(fsm, ctx, dsk, rcvpkt) ==
    LET sndpkt == rcv_make_pkt(pkt_n(rcvpkt), "FINACK")
        c == close_file(stop_connection_timer(ctx), dsk)
    IN IF ~c.ok \/ ctx.snd_addr = NoAddr THEN RStep(fsm, ctx, dsk, NoPkt, "12", "panic")
       ELSE RStep(WaitForConnection, c.ctx, c.disk, sndpkt, "12", "running")

\* a receiver that restarts its connection timer on a frame it ignores (what C27 must
\* exclude)
rcv_wfp_goto_rearm(fsm, ctx, dsk, rcvpkt) ==
    IF rcvpkt = NonePkt THEN RStep(fsm, ctx, dsk, NoPkt, "none", "running")
    ELSE IF rcv_edge8(rcvpkt)
    THEN RStep(fsm, restart_connection_timer(ctx), dsk, NoPkt, "8", "running")
    ELSE IF rcv_edge9(rcvpkt, fsm.sndpkt)
    THEN IF ctx.snd_addr = NoAddr THEN RStep(fsm, ctx, dsk, NoPkt, "9", "panic")
         ELSE RStep(fsm, restart_connection_timer(ctx), dsk, fsm.sndpkt, "9", "running")
    ELSE IF rcv_edge10(rcvpkt, fsm.sndpkt) THEN rcv_accept_data(fsm, ctx, dsk, rcvpkt)
    ELSE IF rcv_edge12(rcvpkt, fsm.sndpkt) THEN rcv_accept_fin(fsm, ctx, dsk, rcvpkt)
    ELSE RStep(fsm, ctx, dsk, NoPkt, "trap", "panic")

\* a receiver that answers a repeated SYN with its stored ACK (what C35 must exclude)
rcv_wfp_goto_answer_syn(fsm, ctx, dsk, rcvpkt) ==
    IF rcvpkt = NonePkt THEN RStep(fsm, ctx, dsk, NoPkt, "none", "running")
    ELSE IF corrupt(rcvpkt) THEN RStep(fsm, ctx, dsk, NoPkt, "8", "running")
    ELSE IF is_SYN(rcvpkt) \/ rcv_edge9(rcvpkt, fsm.sndpkt)
    THEN IF ctx.snd_addr = NoAddr THEN RStep(fsm, ctx, dsk, NoPkt, "9", "panic")
         ELSE RStep(fsm, restart_connection_timer(ctx), dsk, fsm.sndpkt, "9", "running")
    ELSE IF rcv_edge10(rcvpkt, fsm.sndpkt) THEN rcv_accept_data(fsm, ctx, dsk, rcvpkt)
    ELSE IF rcv_edge12(rcvpkt, fsm.sndpkt) THEN rcv_accept_fin(fsm, ctx, dsk, rcvpkt)
    ELSE RStep(fsm, ctx, dsk, NoPkt, "trap", "panic")

\* StateRouter for RcvFsm<RcvStateWaitForPkt>::goto on RecvPck(rcvpkt, _)
rcv_wfp_goto(fsm, ctx, dsk, rcvpkt) ==
    IF rcvpkt = NonePkt THEN RStep(fsm, ctx, dsk, NoPkt, "none", "running")
    ELSE IF rcv_edge8(rcvpkt) THEN RStep(fsm, ctx, dsk, NoPkt, "8", "running")
    ELSE IF rcv_edge9(rcvpkt, fsm.sndpkt)
    THEN IF ctx.snd_addr = NoAddr THEN RStep(fsm, ctx, dsk, NoPkt, "9", "panic")
         ELSE RStep(fsm, restart_connection_timer(ctx), dsk, fsm.sndpkt, "9", "running")
    ELSE IF rcv_edge10(rcvpkt, fsm.sndpkt) THEN rcv_accept_data(fsm, ctx, dsk, rcvpkt)
    ELSE IF rcv_edge12(rcvpkt, fsm.sndpkt) THEN rcv_accept_fin(fsm, ctx, dsk, rcvpkt)
    ELSE RStep(fsm, ctx, dsk, NoPkt, "trap", "panic")

\* an edge 11 that returns to WaitForConnection without closing the file (what C33 must
\* exclude)
rcv_wfp_timeout_keep_file(fsm, ctx, dsk) ==
    RStep(WaitForConnection, ctx, dsk, NoPkt, "11", "running")

\* StateRouter for RcvFsm<RcvStateWaitForPkt>::goto on ConnectionTimeout (edge 11)
rcv_wfp_timeout(fsm, ctx, dsk) ==
    LET c == close_file(ctx, dsk)
    IN IF ~c.ok THEN RStep(fsm, ctx, dsk, NoPkt, "11", "panic")
       ELSE RStep(WaitForConnection, c.ctx, c.disk, NoPkt, "11", "running")

(***************************************************************************)
(* Initial state: SendProtocolIoContext::new, SndFsm::init,                *)
(* RecvProtocolIoContext::new, RcvFsm::init                                *)
(***************************************************************************)
Event(actor, edge, rcvd, sent) == [actor |-> actor, edge |-> edge, rcvd |-> rcvd, sent |-> sent]

\* the codec is not exercised while a transfer runs
CodecIdle ==
    [stage |-> "idle", n |-> FALSE, flag |-> "Data", payload |-> <<>>, pkt |-> PacketErr(""),
     via |-> "", buf |-> <<>>, res |-> PacketErr(""), draw |-> NoDraw, sent |-> <<>>,
     ret |-> 0]

InitOf(sizes, budgets, rcv_results) ==
    /\ snd_fsm = SndState("Start", 0, 0, NoPkt)
    /\ snd_ctx = [timer_start |-> NoInstant, recv_addr |-> RcvAddr,
                  buf_redr |-> [pos |-> 0, rem |-> 0], data_counter |-> 0]
    /\ max_retransmits \in budgets
    /\ file_len \in sizes
    /\ snd_res = "running"
    /\ rcv_fsm = WaitForConnection
    /\ rcv_ctx = [snd_addr |-> NoAddr, buf_wrt |-> NoWriter,
                  connection_timer_start |-> NoInstant, data_counter |-> 0]
    /\ disk = NoFile
    /\ rcv_res \in rcv_results
    /\ s2r = <<>>
    /\ r2s = <<>>
    /\ ev = Event("init", "-", NoPkt, NoPkt)
    /\ snd_frames = <<>>
    /\ tx_cur = 0
    /\ snd_heard = FALSE
    /\ faults = 0
    /\ clean = TRUE
    /\ wire = <<>>
    /\ codec = CodecIdle

\* both programs running
InitWith(sizes, budgets) == InitOf(sizes, budgets, {"running"})

Init == InitWith(FileSizes, 0..MaxRetransmitsBound)
InitClean == InitWith(CleanFileSizes, 0..MaxRetransmitsBound)

(***************************************************************************)
(* One pass of run_snd_fsm_loop: the event of the current state, then goto *)
(***************************************************************************)
\* the fault a handler draws: none when it sends nothing
FaultFor(r, f) == IF r.out = NoPkt THEN f = NoFault ELSE faults + FaultCost(f) <= MaxFaults

Record(r, f, src, expired) ==
    /\ faults' = faults + FaultCost(f)
    /\ clean' = (clean /\ ~expired /\ f = NoFault)
    /\ wire' = IF ~clean' THEN <<>>
               ELSE IF r.out = NoPkt THEN wire
               ELSE wire \o Stamp(src, udt_send(r.out, f))

SndDo(r, f, rcvd, expired) ==
    /\ FaultFor(r, f)
    /\ snd_fsm' = r.fsm
    /\ snd_ctx' = r.ctx
    /\ snd_res' = r.res
    /\ s2r' = IF r.out = NoPkt THEN s2r ELSE Put(s2r, SndAddr, udt_send(r.out, f))
    /\ ev' = Event("snd", r.edge, rcvd, r.out)
    /\ snd_frames' = IF r.built = NoPkt THEN snd_frames ELSE Append(snd_frames, r.built)
    /\ tx_cur' = IF r.built # NoPkt THEN 1 ELSE IF r.out # NoPkt THEN tx_cur + 1 ELSE tx_cur
    /\ Record(r, f, SndAddr, expired)
    /\ UNCHANGED <<max_retransmits, file_len, rcv_fsm, rcv_ctx, disk, rcv_res, codec>>

\* Start: InitSYN
SndStart(f) ==
    /\ snd_res = "running"
    /\ snd_fsm.state = "Start"
    /\ \E r \in {snd_start_goto(snd_fsm, snd_ctx)} : SndDo(r, f, NoPkt, FALSE)
    /\ UNCHANGED <<r2s, snd_heard>>

\* Send: DataAvailable(data_available())
SndSend(f) ==
    /\ snd_res = "running"
    /\ snd_fsm.state = "Send"
    /\ \E r \in {snd_send_goto(snd_fsm, snd_ctx)} : SndDo(r, f, NoPkt, FALSE)
    /\ UNCHANGED <<r2s, snd_heard>>

\* Wait: wait_for_ack_or_timeout gives Timeout (timer_start.unwrap() first)
SndTimeout(f) ==
    /\ snd_res = "running"
    /\ snd_fsm.state = "Wait"
    /\ \E r \in {IF snd_ctx.timer_start # NoInstant THEN snd_wait_timeout(snd_fsm, snd_ctx)
                  ELSE Step(snd_fsm, snd_ctx, NoPkt, NoPkt, "trap", "panic")} :
           SndDo(r, f, NoPkt, TRUE)
    /\ UNCHANGED <<r2s, snd_heard>>

\* Wait: wait_for_incoming_or_timeout takes a datagram; one from another address is skipped
SndRecv ==
    /\ snd_res = "running"
    /\ snd_fsm.state = "Wait"
    /\ snd_ctx.timer_start # NoInstant
    /\ r2s # <<>>
    /\ r2s' = Tail(r2s)
    /\ \E rcvpkt \in {decode(Head(r2s).dg)} :
         \E r \in {IF skip(snd_ctx.recv_addr, Head(r2s).src)
                   THEN Step(snd_fsm, snd_ctx, NoPkt, NoPkt, "skip", "running")
                   ELSE snd_wait_recv(snd_fsm, snd_ctx, rcvpkt)} :
            /\ SndDo(r, NoFault, rcvpkt, FALSE)
            /\ snd_heard' = (snd_heard \/ r.edge # "skip")

(***************************************************************************)
(* One pass of run_rcv_fsm_loop                                            *)
(***************************************************************************)
\* the address RecvProtocolIoContext::udt_send sends to: snd_addr, latched by edge 2
\* before it sends and cleared by close_file after the FINACK is sent
rcv_dest(r) == IF rcv_ctx.snd_addr # NoAddr THEN rcv_ctx.snd_addr ELSE r.ctx.snd_addr

RcvDo(r, f, rcvd, expired) ==
    /\ FaultFor(r, f)
    /\ rcv_fsm' = r.fsm
    /\ rcv_ctx' = r.ctx
    /\ disk' = r.disk
    /\ rcv_res' = r.res
    /\ r2s' = IF r.out = NoPkt \/ rcv_dest(r) # SndAddr THEN r2s
              ELSE Put(r2s, RcvAddr, udt_send(r.out, f))
    /\ ev' = Event("rcv", r.edge, rcvd, r.out)
    /\ Record(r, f, RcvAddr, expired)
    /\ UNCHANGED <<max_retransmits, file_len, snd_fsm, snd_ctx, snd_res,
                   snd_frames, tx_cur, snd_heard, codec>>

\* WaitForConnection: wait_for_pck_no_timeout takes any datagram
RcvConnRecv(f) ==
    /\ rcv_res = "running"
    /\ rcv_fsm.state = "WaitForConnection"
    /\ s2r # <<>>
    /\ s2r' = Tail(s2r)
    /\ \E rcvpkt \in {decode(Head(s2r).dg)} :
         \E r \in {rcv_wfc_goto(rcv_fsm, rcv_ctx, disk, rcvpkt, Head(s2r).src)} :
            RcvDo(r, f, rcvpkt, FALSE)

\* WaitForPkt: wait_for_ack_or_timeout takes a datagram; one not from snd_addr is skipped
RcvPktRecv(f) ==
    /\ rcv_res = "running"
    /\ rcv_fsm.state = "WaitForPkt"
    /\ rcv_ctx.connection_timer_start # NoInstant
    /\ s2r # <<>>
    /\ s2r' = Tail(s2r)
    /\ \E rcvpkt \in {decode(Head(s2r).dg)} :
         \E r \in {IF skip(rcv_ctx.snd_addr, Head(s2r).src)
                   THEN RStep(rcv_fsm, rcv_ctx, disk, NoPkt, "skip", "running")
                   ELSE rcv_wfp_goto(rcv_fsm, rcv_ctx, disk, rcvpkt)} :
            RcvDo(r, f, rcvpkt, FALSE)

\* WaitForPkt: wait_for_ack_or_timeout gives ConnectionTimeout
\* (connection_timer_start.unwrap() first)
RcvTimeout ==
    /\ rcv_res = "running"
    /\ rcv_fsm.state = "WaitForPkt"
    /\ \E r \in {IF rcv_ctx.connection_timer_start # NoInstant
                  THEN rcv_wfp_timeout(rcv_fsm, rcv_ctx, disk)
                  ELSE RStep(rcv_fsm, rcv_ctx, disk, NoPkt, "trap", "panic")} :
           RcvDo(r, NoFault, NoPkt, TRUE)
    /\ UNCHANGED s2r

(***************************************************************************)
(* Specifications                                                          *)
(***************************************************************************)
SndNext == (\E f \in Faults : SndStart(f) \/ SndSend(f) \/ SndTimeout(f)) \/ SndRecv
RcvNext == (\E f \in Faults : RcvConnRecv(f) \/ RcvPktRecv(f)) \/ RcvTimeout

\* one sender, one receiver, a channel that loses, damages and duplicates
Next == SndNext \/ RcvNext
Spec == Init /\ [][Next]_vars

\* the same on a fault-free channel whose timers never expire
NextClean ==
    \/ SndStart(NoFault) \/ SndSend(NoFault) \/ SndRecv
    \/ RcvConnRecv(NoFault) \/ RcvPktRecv(NoFault)
SpecClean == InitClean /\ [][NextClean]_vars

\* the sender's loop keeps running, and a timer that expired is seen as Timeout
SpecFair == Spec /\ WF_vars(SndNext) /\ WF_vars(\E f \in Faults : SndTimeout(f))

(***************************************************************************)
(* A fair-lossy channel with real timers.  The channel's faults are finite *)
(* (at most MaxFaults draws), and the retransmit budget exceeds them.  The *)
(* sender's timer (10 ms by default) expires only when no reply is on its  *)
(* way.  The receiver's connection timer (5000 ms by default) is restarted *)
(* by every DATA frame, so it expires only while the sender is repeating a *)
(* SYN the receiver ignores, or after the sender has stopped.              *)
(***************************************************************************)
LiveBudget == MaxFaults + 1
InitLive == InitWith(FileSizes, {LiveBudget})

Quiet == s2r = <<>> /\ r2s = <<>>

RcvMayExpire ==
    /\ Quiet
    /\ rcv_res = "running"
    /\ rcv_fsm.state = "WaitForPkt"
    /\ \/ snd_res # "running"
       \/ snd_fsm.state = "Wait" /\ is_SYN(snd_fsm.sndpkt)

SndTimeoutLive(f) == Quiet /\ ~RcvMayExpire /\ SndTimeout(f)
RcvTimeoutLive == RcvMayExpire /\ RcvTimeout

SndNextLive == (\E f \in Faults : SndStart(f) \/ SndSend(f) \/ SndTimeoutLive(f)) \/ SndRecv
RcvNextLive == (\E f \in Faults : RcvConnRecv(f) \/ RcvPktRecv(f)) \/ RcvTimeoutLive
NextLive == SndNextLive \/ RcvNextLive
SpecLive == InitLive /\ [][NextLive]_vars /\ WF_vars(SndNextLive) /\ WF_vars(RcvNextLive)

\* a channel without faults whose timers may expire at any moment
NextTimers ==
    \/ SndStart(NoFault) \/ SndSend(NoFault) \/ SndTimeout(NoFault) \/ SndRecv
    \/ RcvConnRecv(NoFault) \/ RcvPktRecv(NoFault) \/ RcvTimeout
TimerFileSizes == {0, 512, 1024}
InitTimers == InitWith(TimerFileSizes, 0..MaxRetransmitsBound)
SpecTimers == InitTimers /\ [][NextTimers]_vars

(***************************************************************************)
(* The connection timer as time passes.  wait_for_incoming_or_timeout      *)
(* measures the time elapsed since connection_timer_start before every     *)
(* recv_from, so a timer whose origin is left alone expires, and the loop  *)
(* sees it; a timer that is started again and again need not.              *)
(***************************************************************************)
RcvTimeoutAt(t) == rcv_ctx.connection_timer_start = t /\ RcvTimeout
SpecRcvTimer == Spec /\ WF_vars(RcvTimeoutAt(1)) /\ WF_vars(RcvTimeoutAt(2))

(***************************************************************************)
(* The whole range of max_retransmits (a u8).  Against a host where no     *)
(* receiver runs, every budget 0..255 is explored; against a running       *)
(* receiver on a fault-free channel with free timers, the budgets at the   *)
(* two ends of the range.                                                  *)
(***************************************************************************)
U8_MAX == 255
EndBudgets == {0, 1, U8_MAX - 1, U8_MAX}
InitRetry ==
    \/ InitOf({0}, 0..U8_MAX, {"down"})
    \/ InitOf({0}, EndBudgets, {"running"})
SpecRetry == InitRetry /\ [][NextTimers]_vars

(***************************************************************************)
(* A socket outlives a transfer (send_file_blocking and recv_file_blocking *)
(* borrow it), and both programs bind fixed ports.  A datagram of an       *)
(* earlier transfer between the same two sockets (a duplicate, a late      *)
(* retransmission) is then still to be read when the next transfer waits.  *)
(***************************************************************************)
StaleFromRcv == {[b0 |-> to_byte(fl, n), crc_ok |-> c, payload |-> <<>>] :
                    fl \in {"ACK", "FINACK"}, n \in BOOLEAN, c \in BOOLEAN}
StaleFromSnd == {[b0 |-> to_byte(fl, n), crc_ok |-> c, payload |-> <<>>] :
                    fl \in {"FIN", "Data"}, n \in BOOLEAN, c \in BOOLEAN}

\* a left-over datagram of the peer is next in the sender's or the receiver's socket
Stale ==
    /\ faults < MaxFaults
    /\ faults' = faults + 1
    /\ clean' = FALSE
    /\ wire' = <<>>
    /\ \/ /\ snd_res = "running" /\ Len(r2s) < MaxInFlight
          /\ \E d \in StaleFromRcv : r2s' = Stamp(RcvAddr, <<d>>) \o r2s
          /\ UNCHANGED s2r
       \/ /\ rcv_res = "running" /\ Len(s2r) < MaxInFlight
          /\ \E d \in StaleFromSnd : s2r' = Stamp(SndAddr, <<d>>) \o s2r
          /\ UNCHANGED r2s
    /\ UNCHANGED <<snd_fsm, snd_ctx, max_retransmits, file_len, snd_res, rcv_fsm, rcv_ctx,
                   disk, rcv_res, ev, snd_frames, tx_cur, snd_heard, codec>>

NextOpen == NextClean \/ Stale
SpecOpen == Init /\ [][NextOpen]_vars

(***************************************************************************)
(* A third host.  Both sockets are unconnected UDP sockets (recv_from), so *)
(* any host can put a datagram into them: a second sender asking for a     *)
(* session of its own, or one that sends frames nobody asked for.          *)
(***************************************************************************)
ForeignAddr == "X"

\* names a SYN of the third host may carry: a basename, a name with path separators in
\* it ("../x", "/tmp/x"), bytes that are not UTF-8
PathNameLen == 4
ForeignNames == {FileName, Bytes("path", 0, PathNameLen), Bytes("junk", 0, 1)}

ForeignToRcv ==
    {encode(SYN_(FALSE, name)) : name \in ForeignNames}
    \cup {encode(Pkt(n, "Data", Bytes("junk", 0, 1), TRUE)) : n \in BOOLEAN}
    \cup {encode(FIN_(n)) : n \in BOOLEAN}
ForeignToSnd == {encode(ACK_(n)) : n \in BOOLEAN} \cup {encode(FINACK_(n)) : n \in BOOLEAN}

\* a datagram of the third host arrives at the receiver's or at the sender's socket
Foreign ==
    /\ faults < MaxFaults
    /\ faults' = faults + 1
    /\ clean' = FALSE
    /\ wire' = <<>>
    /\ \/ /\ rcv_res = "running" /\ Len(s2r) < MaxInFlight
          /\ \E d \in ForeignToRcv : s2r' = s2r \o Stamp(ForeignAddr, <<d>>)
          /\ UNCHANGED r2s
       \/ /\ snd_res = "running" /\ Len(r2s) < MaxInFlight
          /\ \E d \in ForeignToSnd : r2s' = r2s \o Stamp(ForeignAddr, <<d>>)
          /\ UNCHANGED s2r
    /\ UNCHANGED <<snd_fsm, snd_ctx, max_retransmits, file_len, snd_res, rcv_fsm, rcv_ctx,
                   disk, rcv_res, ev, snd_frames, tx_cur, snd_heard, codec>>

\* no channel faults and no retransmissions meanwhile; the receiver's connection timer
\* may expire at any moment
InitForeign == InitWith(FileSizes, {0})
NextForeign == NextClean \/ RcvTimeout \/ Foreign
SpecForeign == InitForeign /\ [][NextForeign]_vars

(***************************************************************************)
(* The packet codec on its own: Packet::new on arguments drawn from        *)
(* bounded sets, Packet::encode, one change to the encoded buffer (a bit   *)
(* flipped as udt_send does, the buffer cut short, byte 0 overwritten),    *)
(* Packet::decode.  No transfer runs meanwhile.                            *)
(***************************************************************************)
\* payloads of up to MaxPayloadLen bytes over the byte values 0..MaxByte
MaxPayloadLen == 3
MaxByte == 2
ShortPayloads == UNION {[1..k -> 0..MaxByte] : k \in 0..MaxPayloadLen}

\* payloads at the size limit of Packet::new, and the payloads of the unit tests
LimitPayloadLens == {max_pck_payload_size, max_pck_payload_size + 1}
LimitPayload(k) == [i \in 1..k |-> i % 256]
TestPayloads == {<<97>>, <<97, 98>>}
CodecPayloads == ShortPayloads \cup {LimitPayload(k) : k \in LimitPayloadLens} \cup TestPayloads

protoVars == <<snd_fsm, snd_ctx, max_retransmits, file_len, snd_res, rcv_fsm, rcv_ctx, disk,
               rcv_res, s2r, r2s, ev, snd_frames, tx_cur, snd_heard, faults, clean, wire>>

InitCodec ==
    /\ snd_fsm = SndState("Start", 0, 0, NoPkt)
    /\ snd_ctx = [timer_start |-> NoInstant, recv_addr |-> RcvAddr,
                  buf_redr |-> [pos |-> 0, rem |-> 0], data_counter |-> 0]
    /\ max_retransmits = 0
    /\ file_len = 0
    /\ snd_res = "running"
    /\ rcv_fsm = WaitForConnection
    /\ rcv_ctx = [snd_addr |-> NoAddr, buf_wrt |-> NoWriter,
                  connection_timer_start |-> NoInstant, data_counter |-> 0]
    /\ disk = NoFile
    /\ rcv_res = "running"
    /\ s2r = <<>>
    /\ r2s = <<>>
    /\ ev = Event("init", "-", NoPkt, NoPkt)
    /\ snd_frames = <<>>
    /\ tx_cur = 0
    /\ snd_heard = FALSE
    /\ faults = 0
    /\ clean = TRUE
    /\ wire = <<>>
    /\ codec \in [stage : {"args"}, n : BOOLEAN, flag : Flags, payload : CodecPayloads,
                  pkt : {PacketErr("")}, via : {""}, buf : {<<>>}, res : {PacketErr("")},
                  draw : {NoDraw}, sent : {<<>>}, ret : {0}]

\* Packet::new(n, f, p)
CodecNew ==
    /\ codec.stage = "args"
    /\ codec' = [codec EXCEPT !.stage = "built",
                              !.pkt = Packet_new(codec.n, codec.flag, codec.payload)]
    /\ UNCHANGED protoVars

\* pck.encode().to_vec()
CodecEncode ==
    /\ codec.stage = "built"
    /\ codec.pkt.ok
    /\ codec' = [codec EXCEPT !.stage = "wire", !.via = "encode",
                              !.buf = Packet_encode(codec.pkt)]
    /\ UNCHANGED protoVars

\* buffers short enough to try every change on
Small(buf) == Len(buf) <= HEADER_LEN + MaxPayloadLen

\* pkt[i] ^= 1 << bit, for every byte i and every bit
CodecFlip ==
    /\ codec.stage = "wire"
    /\ Small(codec.buf)
    /\ \E i \in 1..Len(codec.buf), bit \in 0..7 :
          codec' = [codec EXCEPT !.stage = "changed", !.via = "flip",
                                 !.buf = [codec.buf EXCEPT ![i] = XorBit(@, bit)]]
    /\ UNCHANGED protoVars

\* a buffer that ends early
CodecCut ==
    /\ codec.stage = "wire"
    /\ Small(codec.buf)
    /\ \E k \in 0..(Len(codec.buf) - 1) :
          codec' = [codec EXCEPT !.stage = "changed", !.via = "cut",
                                 !.buf = SubSeq(codec.buf, 1, k)]
    /\ UNCHANGED protoVars

\* a buffer whose byte 0 is any byte
CodecGarble ==
    /\ codec.stage = "wire"
    /\ Len(codec.buf) = HEADER_LEN
    /\ \E b \in 0..255 :
          codec' = [codec EXCEPT !.stage = "changed", !.via = "garble",
                                 !.buf = [codec.buf EXCEPT ![1] = b]]
    /\ UNCHANGED protoVars

\* udt_send(&pck, addr) with every outcome of its draws; a bit is flipped in the short
\* buffers only
CodecSend ==
    /\ codec.stage = "built"
    /\ codec.pkt.ok
    /\ \E d \in Draws(Len(Packet_encode(codec.pkt))) :
          /\ d.err => Small(Packet_encode(codec.pkt))
          /\ \E r \in {SecSnailSocket_udt_send(codec.pkt, d)} :
                codec' = [codec EXCEPT !.stage = "sent", !.draw = d, !.sent = r.sent,
                                       !.ret = r.ret]
    /\ UNCHANGED protoVars

\* Packet::decode(buf)
CodecDecode ==
    /\ codec.stage \in {"wire", "changed"}
    /\ codec' = [codec EXCEPT !.stage = "decoded", !.res = Packet_decode(codec.buf)]
    /\ UNCHANGED protoVars

NextCodec ==
    \/ CodecNew \/ CodecEncode \/ CodecFlip \/ CodecCut \/ CodecGarble \/ CodecDecode
    \/ CodecSend
SpecCodec == InitCodec /\ [][NextCodec]_vars

(***************************************************************************)
(* Properties                                                              *)
(***************************************************************************)
\* the bytes of the destination file: what reached the disk, then what the writer holds
rcv_file == BConcat(disk.bytes, rcv_ctx.buf_wrt.pending)

SndAcceptedFINACK == ev.actor = "snd" /\ ev.edge = "7"

\* C1: whenever the sender reaches End by accepting a FINACK (Wait edge 7), the bytes
\* the receiver appended to its file in that session are exactly the source file's
\* bytes, in order, nothing missing and nothing repeated.
C1_ByteIdentity ==
    SndAcceptedFINACK =>
        /\ snd_fsm.state = "End"
        /\ disk.exists
        /\ rcv_file = FileBytes
        /\ rcv_ctx.data_counter = file_len

\* a non-empty file was carried over a channel that lost, damaged or duplicated something
C1_Witness == SndAcceptedFINACK /\ file_len > 0 /\ faults > 0 /\ rcv_file = FileBytes

\* the frame the receiver took from its socket in WaitForPkt is a duplicate:
\* not corrupt, not a SYN, and its sequence bit is that of last_ack
RcvTakesDuplicate ==
    /\ rcv_fsm.state = "WaitForPkt"
    /\ ev'.actor = "rcv"
    /\ ev'.edge # "skip"
    /\ ev'.rcvd.flag \in Flags \ {"SYN"}
    /\ notcorrupt(ev'.rcvd)
    /\ pkt_n(ev'.rcvd) = pkt_n(rcv_fsm.sndpkt)

\* C2: a non-corrupt non-SYN frame whose sequence bit equals last_ack.n is never
\* written, it only causes last_ack to be re-sent; so each DATA payload is appended
\* exactly once: an open file always holds the first data_counter bytes of the source.
C2_DuplicateNotWritten ==
    [][ /\ RcvTakesDuplicate =>
            /\ disk' = disk
            /\ rcv_ctx'.buf_wrt = rcv_ctx.buf_wrt
            /\ rcv_ctx'.data_counter = rcv_ctx.data_counter
            /\ ev'.sent = rcv_fsm.sndpkt
            /\ rcv_fsm' = rcv_fsm
            /\ rcv_res' = "running"
        /\ (rcv_fsm'.state = "WaitForPkt" =>
               rcv_file' = Bytes("file", 0, rcv_ctx'.data_counter)) ]_vars

\* the receiver answered a repeated DATA frame after having written its payload
C2_Witness ==
    /\ ev.actor = "rcv" /\ ev.edge = "9" /\ is_Data(ev.rcvd)
    /\ rcv_ctx.data_counter > 0
    /\ ev.sent = rcv_fsm.sndpkt

\* the transfer is complete: the sender ended on the FINACK and the file is whole
Completed == SndAcceptedFINACK /\ snd_fsm.state = "End" /\ rcv_file = FileBytes

\* C3: under a fair-lossy channel and a retransmit budget the channel cannot exhaust,
\* the transfer eventually completes: the receiver holds the whole source file and
\* the sender reaches End via FINACK.
C3_EventuallyCompletes == <>Completed

C5_SilentReceiver ==
    (snd_fsm.state = "End" /\ ~snd_heard) =>
        /\ snd_frames = <<Pkt(FALSE, "SYN", FileName, TRUE)>>
        /\ tx_cur = max_retransmits + 1
        /\ snd_ctx.data_counter = 0
        /\ snd_res = "ok"

\* the sender ended without a reply after retransmitting its SYN
C5_Witness ==
    /\ snd_fsm.state = "End" /\ ~snd_heard
    /\ max_retransmits > 0 /\ tx_cur = max_retransmits + 1

CeilDiv(a, b) == (a + b - 1) \div b
IsPrefix(a, b) == Len(a) <= Len(b) /\ a = SubSeq(b, 1, Len(a))

\* the packets on the wire, as rdt_recv decodes them
WirePkts == [i \in 1..Len(wire) |-> decode(wire[i].dg)]

\* C6: with no loss, corruption, duplication or premature timer expiry a file of N
\* bytes is delivered byte-identically using exactly ceil(N/508) + 2 round trips
\* (one SYN, ceil(N/508) DATA, one FIN) and zero retransmissions.
C6_RoundTrips ==
    (clean /\ SndAcceptedFINACK) =>
        /\ rcv_file = FileBytes
        /\ Len(snd_frames) = CeilDiv(file_len, 508) + 2
        /\ Len(wire) = 2 * Len(snd_frames)

\* C7: for a zero-byte file on a fault-free channel the frames exchanged are exactly
\* SYN(n=0, basename), ACK(n=0), FIN(n=1, empty), FINACK(n=1); no DATA frame is sent,
\* the receiver creates an empty file and the sender's byte count is 0.
ZeroByteExchange == <<SYN_(FALSE, FileName), ACK_(FALSE), FIN_(TRUE), FINACK_(TRUE)>>
C7_ZeroByteFile ==
    (clean /\ file_len = 0) =>
        /\ IsPrefix(WirePkts, ZeroByteExchange)
        /\ \A i \in 1..Len(snd_frames) : ~is_Data(snd_frames[i])
        /\ snd_ctx.data_counter = 0
        /\ SndAcceptedFINACK =>
              /\ WirePkts = ZeroByteExchange
              /\ disk.exists /\ disk.name = FileName /\ rcv_file = <<>>
              /\ ~rcv_ctx.buf_wrt.open

C7_Witness == clean /\ file_len = 0 /\ SndAcceptedFINACK /\ WirePkts = ZeroByteExchange

\* C8 as stated: a 512-byte file goes as one DATA(n=1) frame carrying all 512 bytes,
\* acknowledged by ACK(n=1), then FIN(n=0)/FINACK(n=0); byte counter 512.
OnePayloadExchange ==
    <<SYN_(FALSE, FileName), ACK_(FALSE), DATA_(TRUE, 0, 512), ACK_(TRUE),
      FIN_(FALSE), FINACK_(FALSE)>>
TwoPayloadExchange ==
    <<SYN_(FALSE, FileName), ACK_(FALSE), DATA_(TRUE, 0, 508), ACK_(TRUE),
      DATA_(FALSE, 508, 4), ACK_(FALSE), FIN_(TRUE), FINACK_(TRUE)>>
Alternates(frames) ==
    \A k \in 1..Len(frames) :
        /\ pkt_n(frames[k]) = (k - 1) % 2
        /\ (k = 1) = is_SYN(frames[k])
        /\ k > 1 => is_Data(frames[k]) \/ (is_FIN(frames[k]) /\ k = Len(frames))

KiBFrames ==
    <<SYN_(FALSE, FileName), DATA_(TRUE, 0, 508), DATA_(FALSE, 508, 508),
      DATA_(TRUE, 1016, 8), FIN_(FALSE)>>

\* C9: the SYN carries n=0 and the k-th distinct frame after it (DATA frames, then the
\* FIN) carries n = k mod 2; a 1024-byte file yields DATA(n=1,508B), DATA(n=0,508B),
\* DATA(n=1,8B), FIN(n=0); a retransmission sends the same packet, n unchanged.
C9_AlternatingBit ==
    [][ /\ Alternates(snd_frames')
        /\ file_len = 1024 => IsPrefix(snd_frames', KiBFrames)
        /\ (ev'.actor = "snd" /\ ev'.edge = "2a") =>
              /\ ev'.sent = snd_fsm.sndpkt
              /\ snd_fsm'.sndpkt = snd_fsm.sndpkt
              /\ snd_fsm'.n = snd_fsm.n
              /\ snd_frames' = snd_frames ]_vars

\* a 1024-byte file went through although the sender had to retransmit
C9_Witness ==
    /\ file_len = 1024 /\ SndAcceptedFINACK /\ snd_frames = KiBFrames
    /\ ~clean /\ max_retransmits > 0

\* the datagram a handler took is corrupt, or carries the sequence bit the FSM does
\* not wait for
SndTakesBad ==
    /\ ev'.actor = "snd" /\ ev'.edge # "skip" /\ ev'.rcvd # NoPkt
    /\ corrupt(ev'.rcvd) \/ pkt_n(ev'.rcvd) # snd_fsm.n
RcvTakesBad ==
    /\ ev'.actor = "rcv" /\ ev'.edge # "skip" /\ ev'.rcvd # NoPkt
    /\ \/ corrupt(ev'.rcvd)
       \/ rcv_fsm.state = "WaitForConnection" /\ pkt_n(ev'.rcvd) # 0
       \/ rcv_fsm.state = "WaitForPkt" /\ pkt_n(ev'.rcvd) = pkt_n(rcv_fsm.sndpkt)

\* C10: a corrupt or wrong-sequence datagram arriving in any state of either FSM never
\* produces an error and never aborts the driver loop: the FSM absorbs it and runs on.
C10_BadDatagramAbsorbed ==
    [][ /\ SndTakesBad => snd_res' = "running"
        /\ RcvTakesBad => rcv_res' = "running" ]_vars

\* decode was applied to pck.encode() itself / to a buffer with one bit flipped
DecodedEncoding == codec.stage = "decoded" /\ codec.via = "encode"
DecodedFlipped == codec.stage = "decoded" /\ codec.via = "flip"

\* C15: for every sequence bit n, every kind in {SYN, ACK, FIN, FINACK, DATA} and every
\* payload of length 0..508, decode(encode(build(n, kind, payload))) equals the built
\* packet and its corrupt predicate is false.
C15_RoundTrip ==
    DecodedEncoding =>
        /\ codec.pkt = Packet_new(codec.n, codec.flag, codec.payload)
        /\ codec.res.ok
        /\ codec.res = codec.pkt
        /\ codec.res.n = codec.n /\ codec.res.flag = codec.flag
        /\ Packet_payload(codec.res) = codec.payload
        /\ ~Packet_corrupt(codec.res)

\* a FINACK with n = 1 and a payload of 508 bytes went through encode and decode
C15_Witness ==
    /\ DecodedEncoding /\ codec.res = codec.pkt
    /\ codec.n /\ codec.flag = "FINACK" /\ Len(codec.payload) = max_pck_payload_size

\* C16: for every packet built via build and every single bit position of its encoded
\* buffer, decoding the buffer with that one bit flipped either fails or yields a packet
\* whose corrupt predicate is true; no single-bit flip is silently accepted.
C16_SingleBitFlipDetected ==
    DecodedFlipped => (~codec.res.ok \/ Packet_corrupt(codec.res))

\* the kind bits (bits 6-4 of byte 0) that stand for a Flag
KindBits == {0, 1, 2, 4, 6}

\* the four conditions under which decode is said to fail
ShortBuffer(buf) == Len(buf) < 4
ReservedBitsSet(buf) == buf[1] % 16 # 0
UnknownKind(buf) == (buf[1] \div 16) % 8 \notin KindBits
PayloadMissing(buf) == buf[3] * 256 + buf[4] > Len(buf) - 4

\* C17: decode returns an error exactly when the buffer is shorter than 4 bytes, or the
\* low nibble of byte 0 is nonzero, or bits 6-4 of byte 0 are not one of 000, 001, 010,
\* 100, 110, or the declared payload length exceeds the bytes available after the
\* header; it returns a packet in every other case, also when the stored checksum is
\* wrong.
C17_DecodeErrors ==
    codec.stage = "decoded" =>
        LET buf == codec.buf
            fails == \/ ShortBuffer(buf)
                     \/ (~ShortBuffer(buf) /\ ReservedBitsSet(buf))
                     \/ (~ShortBuffer(buf) /\ UnknownKind(buf))
                     \/ (~ShortBuffer(buf) /\ PayloadMissing(buf))
        IN /\ ~codec.res.ok <=> fails
           /\ codec.res.ok =>
                 /\ codec.res.n = (buf[1] >= 128)
                 /\ to_byte(codec.res.flag, codec.res.n) = buf[1]
                 /\ codec.res.checksum = buf[2]
                 /\ codec.res.payload_len = buf[3] * 256 + buf[4]
                 /\ codec.res.buf = buf

\* decode returned a packet although a flipped bit made the stored checksum wrong
C17_Witness ==
    /\ DecodedFlipped /\ codec.res.ok /\ Packet_corrupt(codec.res)
    /\ codec.res.checksum # codec.pkt.checksum

\* the packets of the unit tests calc_checksum and test_encode
TestPck(n, f, p) == Packet_new(n, f, p)
TestedCases ==
    LET a == TestPck(FALSE, "SYN", <<97>>)
        b == TestPck(TRUE, "SYN", <<97>>)
        c == TestPck(FALSE, "SYN", <<97, 98>>)
        d == TestPck(TRUE, "ACK", <<97, 98>>)
    IN /\ a.ok /\ b.ok /\ c.ok /\ d.ok
       /\ calc_checksum(a) # calc_checksum(b)
       /\ calc_checksum(a) # calc_checksum(c)
       /\ Packet_encode(a) # Packet_encode(d)

DiffBits(a, b) ==
    {p \in (1..Len(a)) \X (0..7) : (a[p[1]] \div Pow2(p[2])) % 2 # (b[p[1]] \div Pow2(p[2])) % 2}

\* C21: each channel send puts 0, 1 or 2 datagrams on the wire: a lost send emits
\* nothing and reports success with 0 bytes (and is never corrupted or duplicated);
\* otherwise an error flips exactly one bit of the encoded buffer, and a duplication
\* emits two datagrams that are byte-identical to each other (both corrupted if an error
\* was injected).
C21_ChannelSend ==
    codec.stage = "sent" =>
        LET enc == Packet_encode(codec.pkt)
            d == codec.draw
        IN /\ Len(codec.sent) \in {0, 1, 2}
           /\ d.loss => codec.sent = <<>> /\ codec.ret = 0
           /\ ~d.loss =>
                 /\ Len(codec.sent) = IF d.dup THEN 2 ELSE 1
                 /\ codec.ret = Len(enc)
                 /\ \A k \in 1..Len(codec.sent) :
                       /\ Len(codec.sent[k]) = Len(enc)
                       /\ Cardinality(DiffBits(codec.sent[k], enc)) = IF d.err THEN 1 ELSE 0
                       /\ d.err => DiffBits(codec.sent[k], enc) = {<<d.i, d.bit>>}
           /\ Len(codec.sent) = 2 => codec.sent[1] = codec.sent[2]

\* a send with an error and a duplication: two equal datagrams, both with the flipped bit
C21_Witness ==
    /\ codec.stage = "sent" /\ codec.draw.err /\ codec.draw.dup
    /\ Len(codec.sent) = 2 /\ codec.sent[1] = codec.sent[2]
    /\ codec.sent[1] # Packet_encode(codec.pkt)
    /\ Len(codec.payload) > 0

\* the payload bytes of the DATA frames among frames
RECURSIVE DataBytes(_)
DataBytes(frames) ==
    IF frames = <<>> THEN 0
    ELSE (IF is_Data(Head(frames)) THEN BLen(Head(frames).payload) ELSE 0)
         + DataBytes(Tail(frames))

\* the sender's loop handles a Timeout event in Wait
SndHandlesTimeout ==
    /\ snd_res = "running" /\ snd_fsm.state = "Wait"
    /\ ev'.actor = "snd" /\ ev'.rcvd = NoPkt
    /\ r2s' = r2s

\* C11: when the sender exhausts its retransmit budget (Timeout in Wait with
\* rc >= max_retransmits) it goes to End and send_file_blocking returns a success
\* value, not an error; the returned byte counter counts the bytes placed in DATA
\* frames (and may exceed the number of bytes the receiver wrote).
C11_ExhaustionIsSuccess ==
    [][ (SndHandlesTimeout /\ snd_fsm.retransmit_counter >= max_retransmits) =>
            /\ snd_fsm' = SndEnd
            /\ snd_res' = "ok"
            /\ ev'.edge = "2b" /\ ev'.sent = NoPkt
            /\ snd_ctx'.data_counter = snd_ctx.data_counter
            /\ snd_ctx'.data_counter = DataBytes(snd_frames') ]_vars

\* the sender gave up on a DATA frame the receiver never wrote: it returns 508 bytes
\* while the receiver's file is empty
C11_Witness ==
    /\ ev.actor = "snd" /\ ev.edge = "2b" /\ snd_res = "ok"
    /\ snd_ctx.data_counter = 508
    /\ rcv_ctx.data_counter = 0 /\ rcv_file = <<>>

\* C12: the sender's data counter grows only on Send edge 4, by the payload length of
\* the newly built DATA frame; SYN, FIN and every retransmission leave it unchanged, so
\* each file byte is counted once and, when End is reached via FINACK, the returned
\* counter equals the file size.
C12_DataCounter ==
    [][ /\ snd_ctx'.data_counter # snd_ctx.data_counter =>
            /\ ev'.actor = "snd" /\ ev'.edge = "4"
            /\ is_Data(ev'.sent)
            /\ snd_frames' = Append(snd_frames, ev'.sent)
            /\ snd_ctx'.data_counter = snd_ctx.data_counter + BLen(ev'.sent.payload)
        /\ (ev'.actor = "snd" /\ ev'.edge \in {"1", "5", "2a"}) =>
              snd_ctx'.data_counter = snd_ctx.data_counter
        /\ snd_ctx'.data_counter = snd_ctx'.buf_redr.pos
        /\ SndAcceptedFINACK' => snd_ctx'.data_counter = file_len ]_vars

\* a 512-byte file was sent with a retransmitted DATA frame and the counter is 512
C12_Witness ==
    /\ SndAcceptedFINACK /\ file_len = 512 /\ snd_ctx.data_counter = 512
    /\ ~clean /\ max_retransmits > 0 /\ Len(snd_frames) = 4

\* a handler takes the datagram at the head of its socket's queue
RcvTakes == s2r # <<>> /\ s2r' = Tail(s2r)
SndTakes == r2s # <<>> /\ r2s' = Tail(r2s)

\* C13: while a session is active (receiver in WaitForPkt with a latched sender
\* address; sender in Wait with its configured peer), a datagram from any other address
\* never reaches the FSM as an event: it changes no FSM state, writes nothing, sends
\* nothing, and leaves the running timer's origin as it is.
C13_OtherAddressFiltered ==
    [][ /\ ( /\ rcv_res = "running" /\ rcv_fsm.state = "WaitForPkt"
             /\ rcv_ctx.snd_addr # NoAddr
             /\ RcvTakes /\ Head(s2r).src # rcv_ctx.snd_addr ) =>
                /\ rcv_fsm' = rcv_fsm /\ rcv_ctx' = rcv_ctx /\ rcv_res' = rcv_res
                /\ disk' = disk
                /\ r2s' = r2s /\ ev'.sent = NoPkt
                /\ ev'.edge = "skip"
        /\ ( /\ snd_res = "running" /\ snd_fsm.state = "Wait"
             /\ SndTakes /\ Head(r2s).src # snd_ctx.recv_addr ) =>
                /\ snd_fsm' = snd_fsm /\ snd_ctx' = snd_ctx /\ snd_res' = snd_res
                /\ snd_frames' = snd_frames /\ tx_cur' = tx_cur
                /\ s2r' = s2r /\ ev'.sent = NoPkt
                /\ ev'.edge = "skip" ]_vars

\* the receiver, in a session with the sender, dropped a DATA frame of the third host
\* that it would have written had it come from the sender
C13_Witness ==
    /\ ev.actor = "rcv" /\ ev.edge = "skip"
    /\ rcv_fsm.state = "WaitForPkt" /\ rcv_ctx.snd_addr = SndAddr
    /\ rcv_edge10(ev.rcvd, rcv_fsm.sndpkt)

\* the receiver takes a non-corrupt SYN with n = 0 and a UTF-8 name in WaitForConnection
RcvTakesSYN ==
    /\ rcv_res = "running" /\ rcv_fsm.state = "WaitForConnection"
    /\ RcvTakes
    /\ rcv_edge2(decode(Head(s2r).dg))
    /\ utf8_ok(decode(Head(s2r).dg).payload)

\* C14: a receiver session always ends in WaitForConnection with the file flushed and
\* closed and the peer latch cleared, both on a non-corrupt FIN with n # last_ack.n
\* (edge 12, after sending a FINACK echoing the FIN's n) and on ConnectionTimeout
\* (edge 11, nothing sent); afterwards a SYN(n=0) from any address starts a new session.
C14_SessionEnds ==
    [][ /\ (rcv_fsm.state = "WaitForPkt" /\ rcv_fsm'.state # "WaitForPkt") =>
            /\ ev'.actor = "rcv" /\ ev'.edge \in {"11", "12"}
            /\ rcv_fsm' = WaitForConnection
            /\ rcv_res' = "running"
            /\ rcv_ctx'.buf_wrt = NoWriter
            /\ disk'.bytes = rcv_file /\ disk'.name = disk.name /\ disk'.exists
            /\ rcv_ctx'.snd_addr = NoAddr
            /\ ev'.edge = "12" =>
                  /\ rcv_edge12(ev'.rcvd, rcv_fsm.sndpkt)
                  /\ ev'.sent = FINACK_(ev'.rcvd.n)
                  /\ rcv_ctx'.connection_timer_start = NoInstant
            /\ ev'.edge = "11" => ev'.sent = NoPkt /\ ev'.rcvd = NoPkt /\ r2s' = r2s
        /\ (rcv_fsm.state = "WaitForPkt" /\ ev'.actor = "rcv" /\ ev'.rcvd # NoPkt
               /\ ev'.edge # "skip" /\ ev'.rcvd # NonePkt
               /\ rcv_edge12(ev'.rcvd, rcv_fsm.sndpkt)) => rcv_fsm' = WaitForConnection
        /\ (rcv_fsm.state = "WaitForPkt" /\ ev'.actor = "rcv" /\ ev'.rcvd = NoPkt) =>
               rcv_fsm' = WaitForConnection
        /\ RcvTakesSYN =>
            /\ rcv_fsm' = to_wait_for_pkt(ACK_(FALSE))
            /\ rcv_ctx'.snd_addr = Head(s2r).src
            /\ rcv_ctx'.buf_wrt.open /\ rcv_ctx'.data_counter = 0
            /\ disk' = [exists |-> TRUE, name |-> decode(Head(s2r).dg).payload,
                        bytes |-> <<>>]
            /\ ev'.sent = ACK_(FALSE) ]_vars

\* after the sender's session (it got beyond its SYN and has ended) the receiver has
\* accepted the SYN of the third host
C14_Witness ==
    /\ ev.actor = "rcv" /\ ev.edge = "2"
    /\ rcv_fsm.state = "WaitForPkt" /\ rcv_ctx.snd_addr = ForeignAddr
    /\ snd_fsm.state = "End" /\ Len(snd_frames) >= 2
    /\ disk.exists

\* the name leaves the target directory when joined to it: it has a path separator or
\* a ".." component in it
Escapes(name) == \E i \in 1..Len(name) : name[i].src = "path"

\* C19: the receiver never creates a file outside the target directory: a SYN whose
\* basename payload contains a path separator (or "..") is rejected or has the
\* separators stripped before the destination file is opened.
C19_StaysInTargetDir == disk.exists => ~Escapes(disk.name)

\* the payload has bytes in it that are no UTF-8 text
NotText(payload) == \E i \in 1..Len(payload) : payload[i].src = "junk"

\* the receiver takes a non-corrupt SYN with n = 0 whose payload is not UTF-8
RcvTakesBadName ==
    /\ rcv_res = "running" /\ rcv_fsm.state = "WaitForConnection"
    /\ RcvTakes
    /\ decode(Head(s2r).dg) # NonePkt
    /\ notcorrupt(decode(Head(s2r).dg))
    /\ is_SYN(decode(Head(s2r).dg)) /\ pkt_n(decode(Head(s2r).dg)) = 0
    /\ NotText(decode(Head(s2r).dg).payload)

\* the datagrams in q that the receiver sent
IsFromRcv(d) == d.src = RcvAddr
FromRcv(q) == Len(SelectSeq(q, IsFromRcv))

\* C20: a non-corrupt SYN(n=0) whose payload is not valid UTF-8 is rejected as
\* BadInput: no file is created, no ACK is sent, the receiver does not enter WaitForPkt,
\* and the error is returned to the caller of recv_file_blocking (the receive loop
\* stops).
C20_BadNameRejected ==
    [][ /\ RcvTakesBadName =>
            /\ rcv_res' = "err"
            /\ disk' = disk /\ rcv_ctx'.buf_wrt = rcv_ctx.buf_wrt
            /\ ev'.sent = NoPkt /\ r2s' = r2s
            /\ rcv_fsm' = rcv_fsm
        /\ rcv_res = "err" =>
            /\ rcv_res' = "err" /\ rcv_fsm' = rcv_fsm /\ rcv_ctx' = rcv_ctx
            /\ disk' = disk
            /\ Len(s2r') >= Len(s2r)
            /\ FromRcv(r2s') <= FromRcv(r2s) ]_vars

\* the receive loop has stopped on a SYN with a name that is not UTF-8
C20_Witness ==
    /\ rcv_res = "err" /\ ev.actor = "rcv" /\ ev.edge = "2"
    /\ is_SYN(ev.rcvd) /\ notcorrupt(ev.rcvd) /\ NotText(ev.rcvd.payload)
    /\ rcv_fsm.state = "WaitForConnection" /\ ~disk.exists

\* the sender's loop, in Wait, takes the datagram at the head of its socket's queue
SndTakesInWait == snd_res = "running" /\ snd_fsm.state = "Wait" /\ SndTakes

\* the datagram is a non-corrupt ACK with sequence bit n
GoodACK(d, n) ==
    /\ decode(d) # NonePkt
    /\ notcorrupt(decode(d)) /\ is_ACK(decode(d)) /\ pkt_n(decode(d)) = n

\* the datagram cannot be decoded, or is corrupt, or is an ACK with another bit than n
BadForWait(d, n) ==
    \/ decode(d) = NonePkt
    \/ corrupt(decode(d))
    \/ is_ACK(decode(d)) /\ pkt_n(decode(d)) # n

\* C22: in sender state Wait(N, rc, last), only a non-corrupt ACK with n = N moves to
\* Send(next_n(N)); an undecodable datagram, a corrupt packet, or an ACK with n # N
\* leaves N, rc and last unchanged, sends nothing and does not restart the retransmit
\* timer, so the pending Timeout still fires at timer-start + timeout.
C22_WaitTakesOnlyItsACK ==
    [][ /\ (snd_fsm.state = "Wait" /\ snd_fsm'.state = "Send") =>
              /\ SndTakesInWait
              /\ GoodACK(Head(r2s).dg, snd_fsm.n)
              /\ snd_fsm' = to_send(next_n(snd_fsm.n))
              /\ snd_ctx'.timer_start = NoInstant
        /\ (SndTakesInWait /\ GoodACK(Head(r2s).dg, snd_fsm.n)) => snd_fsm'.state = "Send"
        /\ (SndTakesInWait /\ BadForWait(Head(r2s).dg, snd_fsm.n)) =>
              /\ snd_fsm' = snd_fsm
              /\ snd_ctx' = snd_ctx
              /\ snd_ctx'.timer_start # NoInstant
              /\ snd_res' = "running"
              /\ s2r' = s2r /\ ev'.sent = NoPkt
              /\ snd_frames' = snd_frames /\ tx_cur' = tx_cur ]_vars

\* the sender, waiting for ACK(n=1) after a retransmission, has dropped an intact ACK(n=0)
C22_Witness ==
    /\ ev.actor = "snd" /\ ev.edge = "8"
    /\ notcorrupt(ev.rcvd) /\ is_ACK(ev.rcvd) /\ pkt_n(ev.rcvd) # snd_fsm.n
    /\ snd_fsm.state = "Wait" /\ snd_fsm.retransmit_counter > 0
    /\ snd_ctx.timer_start # NoInstant

\* C23: the retransmit counter satisfies 0 <= rc <= max_retransmits in every reachable
\* Wait state for every max_retransmits in 0..255 (rc + 1 never overflows 8 bits); a
\* Timeout with rc < max_retransmits gives Wait(N, rc + 1, last), a Timeout with
\* rc >= max_retransmits gives End, rc is 0 whenever a new frame is first sent, and
\* therefore each frame is transmitted at most max_retransmits + 1 times.
C23_RetransmitCounter ==
    [][ /\ snd_fsm'.state = "Wait" =>
              /\ 0 <= snd_fsm'.retransmit_counter
              /\ snd_fsm'.retransmit_counter <= max_retransmits
              /\ snd_fsm'.retransmit_counter <= U8_MAX
              /\ tx_cur' = snd_fsm'.retransmit_counter + 1
        /\ (SndHandlesTimeout /\ snd_fsm.retransmit_counter < max_retransmits) =>
              /\ snd_fsm' = SndState("Wait", snd_fsm.n, snd_fsm.retransmit_counter + 1,
                                     snd_fsm.sndpkt)
              /\ ev'.edge = "2a"
        /\ (SndHandlesTimeout /\ snd_fsm.retransmit_counter >= max_retransmits) =>
              /\ snd_fsm' = SndEnd
              /\ ev'.edge = "2b"
        /\ snd_frames' # snd_frames =>
              /\ snd_fsm'.state = "Wait" /\ snd_fsm'.retransmit_counter = 0
              /\ tx_cur' = 1
        /\ tx_cur' <= max_retransmits + 1 ]_vars

\* with max_retransmits = 255 the sender has sent its FIN 256 times and its counter is 255
C23_Witness ==
    /\ max_retransmits = U8_MAX
    /\ snd_fsm.state = "Wait" /\ snd_fsm.retransmit_counter = U8_MAX
    /\ is_FIN(snd_fsm.sndpkt) /\ tx_cur = U8_MAX + 1
    /\ rcv_res = "running"

\* C24: a retransmission (Wait edge 2a) re-sends the stored last packet byte-for-byte:
\* it reads nothing from the file, builds no new packet, and leaves the sequence bit,
\* the file read position and the data counter unchanged; only rc and the timer origin
\* change.
C24_RetransmitVerbatim ==
    [][ (SndHandlesTimeout /\ snd_fsm.retransmit_counter < max_retransmits) =>
            /\ ev'.edge = "2a"
            /\ ev'.sent = snd_fsm.sndpkt
            /\ encode(ev'.sent) = encode(snd_frames[Len(snd_frames)])
            /\ snd_frames' = snd_frames
            /\ snd_fsm' = [snd_fsm EXCEPT !.retransmit_counter = @ + 1]
            /\ snd_ctx' = [snd_ctx EXCEPT !.timer_start = snd_ctx'.timer_start]
            /\ snd_ctx'.buf_redr = snd_ctx.buf_redr
            /\ snd_ctx'.data_counter = snd_ctx.data_counter
            /\ snd_ctx'.timer_start # NoInstant
            /\ snd_ctx'.timer_start # snd_ctx.timer_start
            /\ snd_res' = "running" ]_vars

\* the first DATA frame of a 512-byte file was sent again while 4 bytes were still unread
C24_Witness ==
    /\ ev.actor = "snd" /\ ev.edge = "2a"
    /\ ev.sent = DATA_(TRUE, 0, 508) /\ snd_fsm.sndpkt = ev.sent
    /\ file_len = 512 /\ snd_ctx.buf_redr.pos = 508 /\ snd_ctx.data_counter = 508
    /\ snd_fsm.retransmit_counter = 1

\* the receiver, in WaitForConnection, takes a non-corrupt FIN
RcvTakesStrayFIN ==
    /\ rcv_res = "running" /\ rcv_fsm.state = "WaitForConnection"
    /\ RcvTakes
    /\ decode(Head(s2r).dg) # NonePkt
    /\ notcorrupt(decode(Head(s2r).dg)) /\ is_FIN(decode(Head(s2r).dg))

\* C25: in WaitForConnection, a non-corrupt FIN (for example a FIN retransmitted after
\* the session's FINACK was lost) is answered with a FINACK echoing the FIN's sequence
\* bit, and the receiver stays in WaitForConnection.
C25_StrayFinAnswered ==
    [][ RcvTakesStrayFIN =>
            /\ ev'.sent = FINACK_(decode(Head(s2r).dg).n)
            /\ rcv_fsm' = WaitForConnection
            /\ rcv_res' = "running" ]_vars

\* the receiver, in WaitForConnection, takes the datagram at the head of its queue
RcvTakesInWFC == rcv_res = "running" /\ rcv_fsm.state = "WaitForConnection" /\ RcvTakes

\* the datagram is a non-corrupt SYN with n = 0
GoodSYN(d) ==
    /\ decode(d) # NonePkt
    /\ notcorrupt(decode(d)) /\ is_SYN(decode(d)) /\ pkt_n(decode(d)) = 0

\* C26: in WaitForConnection a session starts only on a non-corrupt SYN with n = 0: the
\* receiver latches the source address, resets its data counter to 0, opens the
\* destination file, sends ACK(n=0) and moves to WaitForPkt(last_ack = that ACK); every
\* corrupt packet, packet with n # 0, non-SYN packet or undecodable datagram leaves the
\* receiver in WaitForConnection with no file opened and no peer latched.
C26_SessionStart ==
    [][ /\ (rcv_fsm.state = "WaitForConnection" /\ rcv_fsm'.state = "WaitForPkt") =>
              /\ RcvTakesInWFC
              /\ GoodSYN(Head(s2r).dg)
              /\ rcv_ctx'.snd_addr = Head(s2r).src
              /\ rcv_ctx'.data_counter = 0
              /\ rcv_ctx'.buf_wrt = [open |-> TRUE, pending |-> <<>>]
              /\ disk' = [exists |-> TRUE, name |-> decode(Head(s2r).dg).payload,
                          bytes |-> <<>>]
              /\ ev'.sent = ACK_(FALSE)
              /\ rcv_fsm' = to_wait_for_pkt(ACK_(FALSE))
              /\ rcv_ctx'.connection_timer_start # NoInstant
        /\ RcvTakesSYN => rcv_fsm'.state = "WaitForPkt"
        /\ (RcvTakesInWFC /\ ~GoodSYN(Head(s2r).dg)) =>
              /\ rcv_fsm' = WaitForConnection
              /\ rcv_res' = "running"
              /\ rcv_ctx' = rcv_ctx /\ disk' = disk
              /\ ~rcv_ctx'.buf_wrt.open
              /\ rcv_ctx'.snd_addr = NoAddr
              /\ ev'.sent = NoPkt /\ r2s' = r2s ]_vars

\* a session has started on a retransmitted SYN, its first copy having been damaged or
\* lost on the way
C26_Witness ==
    /\ ev.actor = "rcv" /\ ev.edge = "2"
    /\ rcv_fsm = to_wait_for_pkt(ACK_(FALSE)) /\ rcv_ctx.snd_addr = SndAddr
    /\ disk.exists /\ rcv_ctx.buf_wrt.open
    /\ faults > 0 /\ snd_fsm.retransmit_counter > 0 /\ is_SYN(snd_fsm.sndpkt)

\* the receiver, in WaitForPkt, takes the datagram at the head of its queue
RcvTakesInWFP == rcv_res = "running" /\ rcv_fsm.state = "WaitForPkt" /\ RcvTakes

\* the datagram cannot be decoded, or is corrupt, or is a SYN
IgnoredInWFP(d) == decode(d) = NonePkt \/ corrupt(decode(d)) \/ is_SYN(decode(d))

\* the receiver waits in WaitForPkt with its connection timer started at instant t
RcvWaitsSince(t) ==
    rcv_res = "running" /\ rcv_fsm.state = "WaitForPkt" /\ rcv_ctx.connection_timer_start = t

\* what a step does to a receiver in WaitForPkt: an ignored datagram changes nothing; the
\* timer's origin changes on edges 9 and 10 only; the wait at one origin ends only by
\* ConnectionTimeout or by a non-corrupt frame that is not a SYN
IgnoredFramesKeepTimer ==
    /\ (RcvTakesInWFP /\ IgnoredInWFP(Head(s2r).dg)) =>
          /\ rcv_fsm' = rcv_fsm
          /\ rcv_ctx' = rcv_ctx
          /\ disk' = disk
          /\ rcv_res' = "running"
          /\ ev'.sent = NoPkt /\ r2s' = r2s
    /\ (rcv_fsm.state = "WaitForPkt" /\ rcv_fsm'.state = "WaitForPkt"
           /\ rcv_ctx'.connection_timer_start # rcv_ctx.connection_timer_start) =>
          /\ RcvTakesInWFP /\ ~IgnoredInWFP(Head(s2r).dg)
          /\ ev'.edge \in {"9", "10"}
          /\ rcv_ctx'.connection_timer_start # NoInstant
    /\ \A t \in {1, 2} : (RcvWaitsSince(t) /\ ~RcvWaitsSince(t)') =>
          /\ ev'.actor = "rcv" /\ ev'.edge \in {"9", "10", "11", "12"}
          /\ \/ ev'.edge = "11"
             \/ RcvTakesInWFP /\ ~IgnoredInWFP(Head(s2r).dg)

\* C27: in WaitForPkt, a corrupt packet, an undecodable datagram, or a SYN (including a
\* retransmitted SYN from the latched sender) leaves last_ack and the file unchanged,
\* sends nothing and does not restart the connection timer; only edges 9 and 10 restart
\* it, so if no non-corrupt non-SYN frame arrives the ConnectionTimeout eventually fires.
C27_IgnoredFramesKeepTimer ==
    /\ [][IgnoredFramesKeepTimer]_vars
    /\ \A t \in {1, 2} : RcvWaitsSince(t) ~> ~RcvWaitsSince(t)

\* the receiver, in a session, has ignored a repeated SYN of its sender
C27_Witness ==
    /\ ev.actor = "rcv" /\ ev.edge = "8"
    /\ is_SYN(ev.rcvd) /\ notcorrupt(ev.rcvd)
    /\ rcv_fsm.state = "WaitForPkt" /\ rcv_ctx.snd_addr = SndAddr
    /\ rcv_ctx.connection_timer_start # NoInstant

\* C28: every ACK or FINACK the receiver sends carries the sequence bit of the frame
\* that triggered it: the ACK for SYN has n=0, the ACK for an accepted DATA and the
\* FINACK for an accepted FIN echo that frame's n, and the ACK re-sent on edge 9 has n
\* equal to the duplicate's n; in WaitForPkt the stored last_ack is always of kind ACK.
C28_ReplyEchoesBit ==
    [][ /\ (ev'.actor = "rcv" /\ ev'.sent # NoPkt) =>
              /\ rcv_res = "running" /\ RcvTakes
              /\ decode(Head(s2r).dg) # NonePkt /\ notcorrupt(decode(Head(s2r).dg))
              /\ ev'.sent \in {ACK_(decode(Head(s2r).dg).n), FINACK_(decode(Head(s2r).dg).n)}
              /\ ev'.edge \in {"2", "9", "10", "12"}
              /\ ev'.edge = "2" => is_SYN(decode(Head(s2r).dg)) /\ ev'.sent = ACK_(FALSE)
              /\ ev'.edge = "10" =>
                    /\ is_Data(decode(Head(s2r).dg))
                    /\ ev'.sent = ACK_(decode(Head(s2r).dg).n)
              /\ ev'.edge = "12" =>
                    /\ is_FIN(decode(Head(s2r).dg))
                    /\ ev'.sent = FINACK_(decode(Head(s2r).dg).n)
              /\ ev'.edge = "9" =>
                    /\ ev'.sent = rcv_fsm.sndpkt
                    /\ ev'.sent = ACK_(decode(Head(s2r).dg).n)
        /\ rcv_fsm'.state = "WaitForPkt" =>
              /\ rcv_fsm'.sndpkt \in {ACK_(FALSE), ACK_(TRUE)}
              /\ (ev'.actor = "rcv" /\ ev'.edge \in {"2", "10"}) => rcv_fsm'.sndpkt = ev'.sent
        ]_vars

\* the receiver has answered a repeated DATA(n=1) with its stored ACK(n=1)
C28_Witness ==
    /\ ev.actor = "rcv" /\ ev.edge = "9"
    /\ is_Data(ev.rcvd) /\ ev.rcvd.n
    /\ ev.sent = ACK_(TRUE) /\ rcv_fsm.sndpkt = ACK_(TRUE)

\* C29: in every reachable sender state, Start and Send have no timer origin set and
\* Wait has one set (so the driver's wait in Wait always has a deadline of
\* timer-start + timeout and the read timeout it programs is positive and at most
\* timeout).
C29_TimerSetInWaitOnly ==
    /\ snd_fsm.state \in {"Start", "Send"} => snd_ctx.timer_start = NoInstant
    /\ snd_fsm.state = "Wait" =>
          /\ snd_ctx.timer_start # NoInstant
          /\ \A timeout \in 0..MaxTimeout, elapsed \in 0..MaxElapsed :
                LET u == update_udp_sock_timeout(elapsed, timeout)
                IN /\ u.expired <=> elapsed >= timeout
                   /\ ~u.expired =>
                         /\ 0 < u.read_timeout /\ u.read_timeout <= timeout
                         /\ elapsed + u.read_timeout = timeout

\* the sender has stopped its timer on an ACK, after a retransmission, and is in Send
C29_Witness ==
    /\ snd_fsm.state = "Send" /\ snd_ctx.timer_start = NoInstant
    /\ ev.actor = "snd" /\ ev.edge = "3"
    /\ tx_cur > 1 /\ Len(snd_frames) = 2

\* the datagram decodes to a non-corrupt packet of one of the kinds
Intact(d, kinds) ==
    decode(d) # NonePkt /\ notcorrupt(decode(d)) /\ decode(d).flag \in kinds

\* what no step of a run of one sender against one receiver does
NoTrap ==
    /\ SndTakesInWait =>
          /\ ~Intact(Head(r2s).dg, {"SYN", "Data", "FIN"})
          /\ Intact(Head(r2s).dg, {"FINACK"}) =>
                /\ pkt_n(decode(Head(r2s).dg)) = snd_fsm.n
                /\ ~snd_data_available(snd_ctx).avail
    /\ RcvTakesInWFP =>
          (Intact(Head(s2r).dg, {"ACK", "FINACK"}) =>
              pkt_n(decode(Head(s2r).dg)) = pkt_n(rcv_fsm.sndpkt))
    /\ ev'.edge # "trap"
    /\ snd_res' # "panic" /\ rcv_res' # "panic"

\* C30: in a run of one sender against one receiver over a channel that loses,
\* duplicates and detectably corrupts datagrams, neither FSM ever reaches its
\* undefined-transition trap: the sender in Wait never receives a non-corrupt SYN, DATA
\* or FIN, a FINACK with n # N, or a FINACK with n = N while file data remains; the
\* receiver in WaitForPkt never receives a non-corrupt ACK or FINACK with
\* n # last_ack.n.
C30_NoUndefinedTransition == [][NoTrap]_vars

\* the sender, waiting for the FINACK, has taken one whose sequence bit was flipped on
\* the way (it fails its checksum) and runs on
C30_Witness ==
    /\ ev.actor = "snd" /\ ev.edge = "8"
    /\ is_FINACK(ev.rcvd) /\ corrupt(ev.rcvd) /\ pkt_n(ev.rcvd) # snd_fsm.n
    /\ snd_fsm.state = "Wait" /\ is_FIN(snd_fsm.sndpkt)
    /\ snd_res = "running"

\* the frames of snd_frames the sender has seen acknowledged: all of them but the one it
\* is waiting on, or was waiting on when it ended
AckedFrames ==
    IF snd_fsm.state \in {"Wait", "End"} /\ snd_frames # <<>>
    THEN SubSeq(snd_frames, 1, Len(snd_frames) - 1)
    ELSE snd_frames

\* C31: in every reachable state of a session the bytes the receiver has appended to
\* its file form a prefix of the source file, never shorter than the bytes of all DATA
\* frames the sender has seen acknowledged and never longer than the bytes the sender
\* has read from the file.
C31_ReceivedIsPrefix ==
    /\ rcv_file = Bytes("file", 0, BLen(rcv_file))
    /\ BLen(rcv_file) <= file_len
    /\ DataBytes(AckedFrames) <= BLen(rcv_file)
    /\ BLen(rcv_file) <= snd_ctx.buf_redr.pos
    /\ BLen(rcv_file) <= DataBytes(snd_frames)

\* over a faulty channel the receiver holds both payloads of the file while the sender
\* has seen only the first acknowledged
C31_Witness ==
    /\ file_len = 512 /\ faults > 0
    /\ rcv_fsm.state = "WaitForPkt"
    /\ BLen(rcv_file) = 512
    /\ DataBytes(AckedFrames) = 508
    /\ snd_fsm.state = "Wait" /\ snd_res = "running"

\* the sender hands a frame it has just built to udt_send
SndSendsNew == snd_frames' # snd_frames

\* the sender goes on to its next frame
SndAdvances == snd_fsm.state # "Send" /\ snd_fsm'.state = "Send"

\* what every step of a stop-and-wait sender keeps to
StopAndWait ==
    /\ SndSendsNew =>
          /\ ev'.actor = "snd" /\ ev'.sent = snd_frames'[Len(snd_frames')]
          /\ snd_frames' = Append(snd_frames, snd_fsm'.sndpkt)
          /\ snd_fsm'.state = "Wait"
          /\ IF snd_frames = <<>>
             THEN snd_fsm.state = "Start" /\ is_SYN(ev'.sent) /\ pkt_n(ev'.sent) = 0
             ELSE /\ snd_fsm.state = "Send"
                  /\ is_SYN(snd_frames[1])
                  /\ is_Data(ev'.sent) \/ is_FIN(ev'.sent)
                  /\ pkt_n(ev'.sent) # pkt_n(snd_frames[Len(snd_frames)])
          /\ is_FIN(ev'.sent) =>
                /\ ~snd_data_available(snd_ctx).avail
                /\ snd_ctx.buf_redr.pos = file_len
                /\ DataBytes(snd_frames) = file_len
                /\ \A i \in 2..Len(snd_frames) : is_Data(snd_frames[i])
    /\ SndAdvances =>
          /\ snd_fsm.state = "Wait"
          /\ snd_fsm.sndpkt = snd_frames[Len(snd_frames)]
          /\ ev'.actor = "snd" /\ ev'.rcvd = decode(Head(r2s).dg)
          /\ notcorrupt(ev'.rcvd) /\ is_ACK(ev'.rcvd)
          /\ pkt_n(ev'.rcvd) = pkt_n(snd_fsm.sndpkt)
          /\ Len(snd_frames) = 1 => pkt_n(ev'.rcvd) = 0
          /\ snd_frames' = snd_frames /\ ev'.sent = NoPkt
    /\ (snd_fsm.state = "Send" /\ snd_fsm'.state = "Send") => snd_fsm' = snd_fsm

\* C32: the sender is stop-and-wait: it never sends a new frame while an earlier frame
\* is unacknowledged, never sends DATA or FIN before a non-corrupt ACK(n=0) for the SYN
\* has been accepted, and sends FIN only after the file reader reports no more data
\* and the last DATA frame has been acknowledged.
C32_StopAndWait == [][StopAndWait]_vars

\* the sender has sent the FIN of a two-frame file after a retransmission over a
\* faulty channel
C32_Witness ==
    /\ ev.actor = "snd" /\ ev.edge = "5" /\ is_FIN(ev.sent)
    /\ file_len = 512 /\ Len(snd_frames) = 4
    /\ faults > 0 /\ ~clean

\* C33: whenever the receiver FSM is in WaitForPkt, the context has an open file
\* writer, a latched sender address and a connection-timer origin, so append,
\* close_file, udt_send and wait_for_ack_or_timeout never act on a missing value;
\* whenever it is in WaitForConnection, no file writer is open and no sender address is
\* latched.
C33_ContextMatchesState ==
    /\ rcv_res # "panic"
    /\ rcv_res = "running" =>
          /\ rcv_fsm.state = "WaitForPkt" =>
                /\ rcv_ctx.buf_wrt.open /\ disk.exists
                /\ rcv_ctx.snd_addr # NoAddr
                /\ rcv_ctx.connection_timer_start # NoInstant
          /\ rcv_fsm.state = "WaitForConnection" =>
                /\ ~rcv_ctx.buf_wrt.open /\ rcv_ctx.buf_wrt.pending = <<>>
                /\ rcv_ctx.snd_addr = NoAddr

\* the connection timer has ended a session in which a payload was written: the
\* receiver is listening again, the writer closed and the sender's address dropped
C33_Witness ==
    /\ ev.actor = "rcv" /\ ev.edge = "11"
    /\ rcv_res = "running" /\ rcv_fsm.state = "WaitForConnection"
    /\ ~rcv_ctx.buf_wrt.open /\ rcv_ctx.snd_addr = NoAddr
    /\ disk.exists /\ BLen(disk.bytes) > 0

\* the sender ends on a FINACK (Wait edge 7)
SndEndsOnFINACK == snd_fsm.state = "Wait" /\ ev'.actor = "snd" /\ ev'.edge = "7"

EndsOnFinackOfItsFin ==
    SndEndsOnFINACK =>
        /\ snd_fsm'.state = "End"
        /\ notcorrupt(ev'.rcvd) /\ is_FINACK(ev'.rcvd)
        /\ is_FIN(snd_fsm.sndpkt)
        /\ pkt_n(snd_fsm.sndpkt) = pkt_n(ev'.rcvd)

\* C34: the sender reaches End through a FINACK (Wait edge 7) only when its
\* outstanding last-sent packet is a FIN with the same sequence bit as the FINACK; it
\* never ends through a FINACK while the outstanding packet is a SYN or a DATA frame.
C34_EndsOnFinackOfItsFin == [][EndsOnFinackOfItsFin]_vars

\* an intact ACK(n=0) is on its way to the sender
AckOnWay == \E i \in 1..Len(r2s) : Intact(r2s[i].dg, {"ACK"}) /\ pkt_n(decode(r2s[i].dg)) = 0

\* the sender is waiting on its SYN
SndAwaitsSynAck == snd_res = "running" /\ snd_fsm.state = "Wait" /\ is_SYN(snd_fsm.sndpkt)

\* the receiver has accepted a SYN and no ACK(n=0) will reach the sender: it was lost
SynAckLost ==
    /\ SndAwaitsSynAck
    /\ rcv_res = "running" /\ rcv_fsm.state = "WaitForPkt"
    /\ ~AckOnWay

\* the sender gives up on its SYN
SndExhaustedOnSyn ==
    /\ snd_fsm.state = "End" /\ snd_res = "ok"
    /\ ev.actor = "snd" /\ ev.edge = "2b"
    /\ Len(snd_frames) = 1 /\ snd_ctx.data_counter = 0

\* what a step does once the ACK of the SYN is lost, and how the sender gets past its SYN
LostSynAck ==
    /\ SynAckLost =>
          /\ snd_fsm'.state # "Send"
          /\ snd_fsm'.state = "End" => SndExhaustedOnSyn'
          /\ ev'.actor = "rcv" => ev'.sent = NoPkt /\ r2s' = r2s /\ rcv_res' = "running"
          /\ rcv_fsm'.state = "WaitForPkt" =>
                /\ rcv_fsm' = rcv_fsm /\ rcv_ctx' = rcv_ctx /\ disk' = disk
                /\ ~AckOnWay'
          /\ rcv_fsm'.state # "WaitForPkt" =>
                /\ ev'.actor = "rcv" /\ ev'.edge = "11"
                /\ rcv_fsm'.state = "WaitForConnection"
    /\ (SndAwaitsSynAck /\ ~AckOnWay /\ AckOnWay') =>
          /\ rcv_fsm.state = "WaitForConnection"
          /\ ev'.actor = "rcv" /\ ev'.edge = "2"
          /\ notcorrupt(ev'.rcvd) /\ is_SYN(ev'.rcvd)
          /\ rcv_fsm'.state = "WaitForPkt"
    /\ (SndAwaitsSynAck /\ snd_fsm'.state = "Send") =>
          /\ AckOnWay
          /\ Intact(Head(r2s).dg, {"ACK"}) /\ pkt_n(decode(Head(r2s).dg)) = 0

\* C35: if the receiver accepts a SYN and its ACK(n=0) is lost, no retransmitted SYN
\* makes the receiver send anything while it stays in WaitForPkt; the sender can advance
\* past the SYN only after the receiver's connection timeout has returned it to
\* WaitForConnection and a later SYN is accepted, otherwise the sender ends by
\* exhaustion with counter 0.
C35_LostSynAck ==
    /\ [][LostSynAck]_vars
    /\ SynAckLost ~> (~SynAckLost)

\* the ACK of the SYN was lost, and the receiver, in WaitForPkt, has taken a
\* retransmitted SYN and sent nothing
C35_Witness ==
    /\ SynAckLost /\ r2s = <<>> /\ ~snd_heard /\ faults > 0
    /\ ev.actor = "rcv" /\ ev.edge = "8"
    /\ is_SYN(ev.rcvd) /\ notcorrupt(ev.rcvd) /\ ev.sent = NoPkt
    /\ tx_cur > 1
====
